---- MODULE Spec2Model ----
(***************************************************************************)
(* Model of the rl_exercises solvers: explicit dynamic programming         *)
(* (solver/mod.rs), the coin-bet environment builder (coin_bet/mod.rs),    *)
(* Monte Carlo evaluation (solver/monte_carlo.rs) and expected SARSA       *)
(* (solver/td.rs).                                                         *)
(*                                                                         *)
(* f64 values are modelled as exact rationals <<n, d>> in lowest terms     *)
(* (d > 0).  All inputs are dyadic, so the sums and products the code      *)
(* computes on them are exact in f64 as well.  <<-1, 0>> is                *)
(* f64::NEG_INFINITY.                                                      *)
(***************************************************************************)
EXTENDS Integers, Sequences, FiniteSets, TLC

VARIABLES
    env,                \* DP: the explicit Env
    policy,             \* DP: the Policy held by the caller
    state_values,       \* DP: the caller's current value table
    prev_state_values,  \* DP: the table passed to the latest sweep
    max_delta,          \* DP: the delta returned by the latest sweep
    discount,           \* DP: the discount factor
    dp_op,              \* DP: the latest solver call
    sweeps,             \* DP: number of sweeps done by the caller's loop
    heads_prob,         \* coin: the argument of new_coin_env
    coin_states,        \* coin: the map `states` that new_coin_env builds
    money,              \* coin: the loop variable of new_coin_env
    coin_pc,            \* coin: position in new_coin_env
    mc_policy,          \* MC: the policy callable
    mc_discount,        \* MC: discount
    mc_iterations,      \* MC: iterations
    mc_state_values,    \* MC: state -> ValueEstimate
    mc_state,           \* MC: the local `state` of the episode loop
    mc_episode,         \* MC: the local `episode`
    mc_done,            \* MC: iterations of the outer loop completed
    mc_pc,              \* MC: position in evaluate_policy
    mc_result,          \* MC: the returned table
    mc_log,             \* MC: the episodes generated so far, in order
    td_discount,        \* TD: discount
    td_exploration_fraction, \* TD: exploration_fraction
    td_alpha,           \* TD: alpha
    td_iterations,      \* TD: iterations
    td_action_values,   \* TD: state -> action -> value
    td_state,           \* TD: the local `state` of the episode loop
    td_done,            \* TD: iterations of the outer loop completed
    td_pc,              \* TD: position in find_action_values_expected_sarsa
    td_last,            \* TD: state, action, reward, successor of the latest pass
    td_steps,           \* TD: passes of the episode loop so far
    td_env,             \* TD: the environment whose callables were passed
    fp_discount,        \* MC control: discount
    fp_exploration_fraction, \* MC control: exploration_fraction
    fp_iterations,      \* MC control: iterations
    fp_action_values,   \* MC control: state -> StateActionEstimate
    fp_state,           \* MC control: the local `state` of the episode loop
    fp_episode,         \* MC control: the local `episode`
    fp_done,            \* MC control: iterations of the outer loop completed
    fp_pc,              \* MC control: position in find_policy
    fp_result,          \* MC control: the returned Policy
    fp_last,            \* MC control: state, draw, branch, action of the latest pass
    fp_visited,         \* MC control: the states pushed to some episode so far
    tile_continuous_dimensions, \* tile: the continuous dimensions given
    tile_integer_dimensions,    \* tile: the integer dimensions given
    tile_count,         \* tile: the number of tilings asked for
    tile_overflow_checks, \* tile: whether the build checks integer overflow
    tile_set,           \* tile: the TilingSet built
    tile_point_c,       \* tile: the continuous coordinates of the latest point
    tile_point_i,       \* tile: the integer coordinates of the latest point
    tile_result,        \* tile: what the latest get_tiles returned
    tile_op,            \* tile: the latest call
    sg_kind,            \* approximate: which state_action_features was passed
    sg_discount,        \* approximate: discount
    sg_exploration_fraction, \* approximate: exploration_fraction
    sg_alpha,           \* approximate: alpha
    sg_iterations,      \* approximate: iterations
    sg_w,               \* approximate: the weight vector w
    sg_state,           \* approximate: the local `state`
    sg_action_index,    \* approximate: the local `action_index`
    sg_features,        \* approximate: the local `features`
    sg_branch,          \* approximate: the branch that chose action_index
    sg_done,            \* approximate: iterations of the outer loop completed
    sg_pc,              \* approximate: position in the solver
    sg_last,            \* approximate: what the latest pass gave to next_state, and w before it
    sg_steps,           \* approximate: passes of the episode loop so far
    ve_estimate,        \* ValueEstimate: the estimate being updated
    ve_returns,         \* ValueEstimate: the values passed to update so far, in order
    ve_pc,              \* ValueEstimate: whether an estimate is being driven
    bj_cards,           \* blackjack: the cards given to Hand::from_cards
    bj_hand,            \* blackjack: the Hand from_cards returned
    bj_state,           \* blackjack: the State of the episode
    bj_dealer,          \* blackjack: the local `dealer` of next_state
    bj_hits,            \* blackjack: calls of next_state with Hit in the episode
    bj_draws,           \* blackjack: passes of the dealer loop
    bj_reward,          \* blackjack: the reward of the latest next_state
    bj_pc,              \* blackjack: position in the episode
    crk_map,            \* choose_random_key: the map, key -> weight f(v)
    crk_draw,           \* choose_random_key: what rand::random::<f64>() yielded
    crk_order,          \* choose_random_key: the order in which map.iter() yielded the keys
    crk_result,         \* choose_random_key: the key returned, or the panic
    crk_pc,             \* choose_random_key: whether the call has been made
    car_max_cars,       \* car rental: max_cars
    car_states,         \* car rental: the map `states` being built
    car_actions_cache,  \* car rental: actions_cache
    car_state_actions,  \* car rental: the local state_actions.actions
    car_l1_start,       \* car rental: l1_start
    car_l2_start,       \* car rental: l2_start
    car_transfer,       \* car rental: the next value of `transfer`
    car_pc              \* car rental: position in new_car_rental_env

dp_vars == <<env, policy, state_values, prev_state_values, max_delta,
             discount, dp_op, sweeps>>

coin_vars == <<heads_prob, coin_states, money, coin_pc>>

mc_vars == <<mc_policy, mc_discount, mc_iterations, mc_state_values, mc_state,
             mc_episode, mc_done, mc_pc, mc_result, mc_log>>

td_vars == <<td_discount, td_exploration_fraction, td_alpha, td_iterations,
             td_action_values, td_state, td_done, td_pc, td_last, td_steps,
             td_env>>

fp_vars == <<fp_discount, fp_exploration_fraction, fp_iterations,
             fp_action_values, fp_state, fp_episode, fp_done, fp_pc, fp_result,
             fp_last, fp_visited>>

tile_vars == <<tile_continuous_dimensions, tile_integer_dimensions, tile_count,
               tile_overflow_checks, tile_set, tile_point_c, tile_point_i,
               tile_result, tile_op>>

sg_vars == <<sg_kind, sg_discount, sg_exploration_fraction, sg_alpha,
             sg_iterations, sg_w, sg_state, sg_action_index, sg_features,
             sg_branch, sg_done, sg_pc, sg_last, sg_steps>>

ve_vars == <<ve_estimate, ve_returns, ve_pc>>

bj_vars == <<bj_cards, bj_hand, bj_state, bj_dealer, bj_hits, bj_draws,
              bj_reward, bj_pc>>

crk_vars == <<crk_map, crk_draw, crk_order, crk_result, crk_pc>>

car_vars == <<car_max_cars, car_states, car_actions_cache, car_state_actions,
               car_l1_start, car_l2_start, car_transfer, car_pc>>

vars == <<dp_vars, coin_vars, mc_vars, td_vars, fp_vars, tile_vars, sg_vars, ve_vars, bj_vars, crk_vars, car_vars>>

not_dp_vars == <<coin_vars, mc_vars, td_vars, fp_vars, tile_vars, sg_vars, ve_vars, bj_vars, crk_vars, car_vars>>
not_coin_vars == <<dp_vars, mc_vars, td_vars, fp_vars, tile_vars, sg_vars, ve_vars, bj_vars, crk_vars, car_vars>>
not_mc_vars == <<dp_vars, coin_vars, td_vars, fp_vars, tile_vars, sg_vars, ve_vars, bj_vars, crk_vars, car_vars>>
not_td_vars == <<dp_vars, coin_vars, mc_vars, fp_vars, tile_vars, sg_vars, ve_vars, bj_vars, crk_vars, car_vars>>
not_fp_vars == <<dp_vars, coin_vars, mc_vars, td_vars, tile_vars, sg_vars, ve_vars, bj_vars, crk_vars, car_vars>>
not_tile_vars == <<dp_vars, coin_vars, mc_vars, td_vars, fp_vars, sg_vars, ve_vars, bj_vars, crk_vars, car_vars>>
not_sg_vars == <<dp_vars, coin_vars, mc_vars, td_vars, fp_vars, tile_vars, ve_vars, bj_vars, crk_vars, car_vars>>
not_ve_vars == <<dp_vars, coin_vars, mc_vars, td_vars, fp_vars, tile_vars, sg_vars, bj_vars, crk_vars, car_vars>>
not_bj_vars == <<dp_vars, coin_vars, mc_vars, td_vars, fp_vars, tile_vars, sg_vars, ve_vars, crk_vars, car_vars>>
not_crk_vars == <<dp_vars, coin_vars, mc_vars, td_vars, fp_vars, tile_vars, sg_vars, ve_vars, bj_vars, car_vars>>
not_car_vars == <<dp_vars, coin_vars, mc_vars, td_vars, fp_vars, tile_vars, sg_vars, ve_vars, bj_vars, crk_vars>>

\* ------------------------------------------------------------------ f64 --
RECURSIVE GCD(_, _)
GCD(a, b) == IF b = 0 THEN a ELSE GCD(b, a % b)

IAbs(i) == IF i < 0 THEN -i ELSE i

Norm(n, d) ==
    LET g == GCD(IAbs(n), d) IN <<n \div g, d \div g>>

R(n, d) == Norm(n, d)

Zero == <<0, 1>>
One == <<1, 1>>
NEG_INFINITY == <<-1, 0>>

IsNegInf(x) == x[2] = 0

LCM(a, b) == (a \div GCD(a, b)) * b

RAdd(x, y) ==
    LET l == LCM(x[2], y[2]) IN
    Norm(x[1] * (l \div x[2]) + y[1] * (l \div y[2]), l)

RNeg(x) == <<-x[1], x[2]>>

RSub(x, y) == RAdd(x, RNeg(y))

RMul(x, y) ==
    LET a == Norm(x[1], y[2])
        b == Norm(y[1], x[2])
    IN  <<a[1] * b[1], a[2] * b[2]>>

RDivInt(x, k) == RMul(x, Norm(1, k))

RAbs(x) == <<IAbs(x[1]), x[2]>>

RLt(x, y) ==
    IF IsNegInf(y) THEN FALSE
    ELSE IF IsNegInf(x) THEN TRUE
    ELSE LET l == LCM(x[2], y[2]) IN
         x[1] * (l \div x[2]) < y[1] * (l \div y[2])

RLe(x, y) == ~RLt(y, x)

\* f64::max
RMax(x, y) == IF RLt(x, y) THEN y ELSE x

\* x < 1e-6 for a finite x >= 0, without multiplying n by 10^6
TOLERANCE_DEN == 1000000

LtTolerance(x) == x[1] <= (x[2] - 1) \div TOLERANCE_DEN

\* Iterator::sum over the values of a map
RECURSIVE RSum(_)
RSum(f) ==
    IF DOMAIN f = {} THEN Zero
    ELSE LET k == CHOOSE k \in DOMAIN f : TRUE IN
         RAdd(f[k], RSum([x \in DOMAIN f \ {k} |-> f[x]]))

\* Iterator::fold(f64::NEG_INFINITY, |a, b| a.max(b)) over the values of a map
RECURSIVE RFoldMax(_)
RFoldMax(f) ==
    IF DOMAIN f = {} THEN NEG_INFINITY
    ELSE LET k == CHOOSE k \in DOMAIN f : TRUE IN
         RMax(RFoldMax([x \in DOMAIN f \ {k} |-> f[x]]), f[k])

\* HashMap::get(k).unwrap_or(&0.0)
GetOrZero(m, k) == IF k \in DOMAIN m THEN m[k] ELSE Zero

\* HashMap::insert
MapInsert(m, k, v) == [x \in DOMAIN m \cup {k} |-> IF x = k THEN v ELSE m[x]]

EmptyMap == <<>>

\* ------------------------------------------------- solver/mod.rs (DP) --
\* States of an Env that have at least one action
NonTerminal(e) == {s \in DOMAIN e.states : DOMAIN e.states[s].actions # {}}

\* Faulty variant: the discount is not applied to the successor's value
get_action_value_undiscounted(action, values, disc) ==
    RSum([d \in DOMAIN action.dest_states |->
            RMul(action.dest_states[d].probability,
                 RAdd(action.dest_states[d].reward, GetOrZero(values, d)))])

get_action_value(action, values, disc) ==
    RSum([d \in DOMAIN action.dest_states |->
            RMul(action.dest_states[d].probability,
                 RAdd(action.dest_states[d].reward,
                      RMul(disc, GetOrZero(values, d))))])

\* Faulty variant: in-place sweep, reading values already written in this sweep
evaluate_policy_body_inplace(e, pol, prev, disc, state, acc) ==
    LET state_actions == e.states[state]
        cur == [s \in DOMAIN prev \cup DOMAIN acc.new_state_values |->
                  IF s \in DOMAIN acc.new_state_values
                  THEN acc.new_state_values[s] ELSE prev[s]]
    IN
    IF DOMAIN state_actions.actions = {} THEN acc
    ELSE IF state \notin DOMAIN pol.states THEN [acc EXCEPT !.panic = TRUE]
    ELSE
      LET state_policy == pol.states[state]
          state_value ==
            RSum([a \in DOMAIN state_actions.actions |->
                    RMul(get_action_value(state_actions.actions[a], cur, disc),
                         GetOrZero(state_policy.actions, a))])
          prev_state_value == GetOrZero(prev, state)
      IN [new_state_values |-> MapInsert(acc.new_state_values, state, state_value),
          max_delta |-> RMax(acc.max_delta, RAbs(RSub(prev_state_value, state_value))),
          panic |-> acc.panic]

\* Faulty variant: a state missing from the policy is skipped instead of aborting
evaluate_policy_body_skip(e, pol, prev, disc, state, acc) ==
    LET state_actions == e.states[state] IN
    IF DOMAIN state_actions.actions = {} THEN acc
    ELSE IF state \notin DOMAIN pol.states THEN acc
    ELSE
      LET state_policy == pol.states[state]
          state_value ==
            RSum([a \in DOMAIN state_actions.actions |->
                    RMul(get_action_value(state_actions.actions[a], prev, disc),
                         GetOrZero(state_policy.actions, a))])
          prev_state_value == GetOrZero(prev, state)
      IN [new_state_values |-> MapInsert(acc.new_state_values, state, state_value),
          max_delta |-> RMax(acc.max_delta, RAbs(RSub(prev_state_value, state_value))),
          panic |-> acc.panic]

\* Faulty variant: the probabilities of a PolicyState are checked to sum to 1
evaluate_policy_body_checked(e, pol, prev, disc, state, acc) ==
    LET state_actions == e.states[state] IN
    IF DOMAIN state_actions.actions = {} THEN acc
    ELSE IF state \notin DOMAIN pol.states THEN [acc EXCEPT !.panic = TRUE]
    ELSE IF RSum(pol.states[state].actions) # One THEN [acc EXCEPT !.panic = TRUE]
    ELSE
      LET state_policy == pol.states[state]
          state_value ==
            RSum([a \in DOMAIN state_actions.actions |->
                    RMul(get_action_value(state_actions.actions[a], prev, disc),
                         GetOrZero(state_policy.actions, a))])
          prev_state_value == GetOrZero(prev, state)
      IN [new_state_values |-> MapInsert(acc.new_state_values, state, state_value),
          max_delta |-> RMax(acc.max_delta, RAbs(RSub(prev_state_value, state_value))),
          panic |-> acc.panic]

\* Body of the loop of evaluate_policy for one state of env.states
evaluate_policy_body(e, pol, prev, disc, state, acc) ==
    LET state_actions == e.states[state] IN
    IF DOMAIN state_actions.actions = {} THEN acc
    ELSE IF state \notin DOMAIN pol.states THEN [acc EXCEPT !.panic = TRUE]
    ELSE
      LET state_policy == pol.states[state]
          state_value ==
            RSum([a \in DOMAIN state_actions.actions |->
                    RMul(get_action_value(state_actions.actions[a], prev, disc),
                         GetOrZero(state_policy.actions, a))])
          prev_state_value == GetOrZero(prev, state)
      IN [new_state_values |-> MapInsert(acc.new_state_values, state, state_value),
          max_delta |-> RMax(acc.max_delta, RAbs(RSub(prev_state_value, state_value))),
          panic |-> acc.panic]

RECURSIVE evaluate_policy_loop(_, _, _, _, _, _)
evaluate_policy_loop(todo, e, pol, prev, disc, acc) ==
    IF todo = {} \/ acc.panic THEN acc
    ELSE LET state == CHOOSE s \in todo : TRUE IN
         evaluate_policy_loop(todo \ {state}, e, pol, prev, disc,
                              evaluate_policy_body(e, pol, prev, disc, state, acc))

evaluate_policy(e, pol, prev, disc) ==
    evaluate_policy_loop(DOMAIN e.states, e, pol, prev, disc,
        [new_state_values |-> EmptyMap, max_delta |-> Zero, panic |-> FALSE])

\* Faulty variant: the first action's value is taken instead of the best one
iterate_state_value_body_first(e, prev, disc, state, acc) ==
    LET state_actions == e.states[state] IN
    IF DOMAIN state_actions.actions = {} THEN acc
    ELSE
      LET first == CHOOSE a \in DOMAIN state_actions.actions : TRUE
          best_action_value ==
            get_action_value(state_actions.actions[first], prev, disc)
          prev_state_value == GetOrZero(prev, state)
      IN [new_state_values |-> MapInsert(acc.new_state_values, state, best_action_value),
          max_delta |-> RMax(acc.max_delta, RSub(best_action_value, prev_state_value))]

\* Body of the loop of iterate_state_value for one state of env.states
iterate_state_value_body(e, prev, disc, state, acc) ==
    LET state_actions == e.states[state] IN
    IF DOMAIN state_actions.actions = {} THEN acc
    ELSE
      LET best_action_value ==
            RFoldMax([a \in DOMAIN state_actions.actions |->
                        get_action_value(state_actions.actions[a], prev, disc)])
          prev_state_value == GetOrZero(prev, state)
      IN [new_state_values |-> MapInsert(acc.new_state_values, state, best_action_value),
          max_delta |-> RMax(acc.max_delta, RSub(best_action_value, prev_state_value))]

RECURSIVE iterate_state_value_loop(_, _, _, _, _)
iterate_state_value_loop(todo, e, prev, disc, acc) ==
    IF todo = {} THEN acc
    ELSE LET state == CHOOSE s \in todo : TRUE IN
         iterate_state_value_loop(todo \ {state}, e, prev, disc,
                                  iterate_state_value_body(e, prev, disc, state, acc))

iterate_state_value(e, prev, disc) ==
    iterate_state_value_loop(DOMAIN e.states, e, prev, disc,
        [new_state_values |-> EmptyMap, max_delta |-> Zero])

make_uniform_policy(e) ==
    [states |->
        [s \in NonTerminal(e) |->
            [actions |->
                [a \in DOMAIN e.states[s].actions |->
                    R(1, Cardinality(DOMAIN e.states[s].actions))]]]]

\* Faulty variant: only actions whose value equals the maximum exactly are kept
greedy_actions_exact(state_actions, values, disc) ==
    LET max_action_reward ==
          RFoldMax([a \in DOMAIN state_actions.actions |->
                      get_action_value(state_actions.actions[a], values, disc)])
    IN {a \in DOMAIN state_actions.actions :
          get_action_value(state_actions.actions[a], values, disc)
            = max_action_reward}

\* The action ids that make_greedy_policy collects for one state
greedy_actions(state_actions, values, disc) ==
    LET max_action_reward ==
          RFoldMax([a \in DOMAIN state_actions.actions |->
                      get_action_value(state_actions.actions[a], values, disc)])
    IN {a \in DOMAIN state_actions.actions :
          LtTolerance(RAbs(RSub(
              get_action_value(state_actions.actions[a], values, disc),
              max_action_reward)))}

\* Result: the Policy, and whether assert!(!actions.is_empty()) failed
make_greedy_policy(e, values, disc) ==
    [panic |-> \E s \in NonTerminal(e) :
                  greedy_actions(e.states[s], values, disc) = {},
     policy |->
       [states |->
         [s \in NonTerminal(e) |->
            LET actions == greedy_actions(e.states[s], values, disc) IN
            [actions |-> [a \in actions |-> R(1, Cardinality(actions))]]]]]

\* ------------------------------------------------------ DP: the inputs --
\* Sweeps the caller's convergence loop may run
MaxSweeps == 2

\* 1 + 2^-20: closer than 1e-6 to 1, so tied with it for make_greedy_policy
NearOne == R(1048577, 1048576)

\* What an action of state 0 can lead to
DPActionResults0 ==
    { [dest_states |-> (2 :> [probability |-> One, reward |-> One])],
      [dest_states |-> (2 :> [probability |-> One,
                              reward |-> NearOne])],
      [dest_states |-> (2 :> [probability |-> One, reward |-> Zero])],
      [dest_states |-> (1 :> [probability |-> R(1, 2), reward |-> Zero]
                        @@ 2 :> [probability |-> R(1, 2), reward |-> R(-1, 1)])] }

\* What the action of state 1 can lead to
DPActionResults1 ==
    { [dest_states |-> (2 :> [probability |-> One, reward |-> One])],
      [dest_states |-> (2 :> [probability |-> One, reward |-> Zero])],
      [dest_states |-> (0 :> [probability |-> One, reward |-> Zero])] }

\* State 0 offers actions "a" and "b"; state 1 is final or offers "a";
\* state 2 is final.
DPEnvs ==
    { [states |-> (0 :> [actions |-> ("a" :> ra @@ "b" :> rb)]
                   @@ 1 :> [actions |-> s1]
                   @@ 2 :> [actions |-> EmptyMap])] :
        ra \in DPActionResults0, rb \in DPActionResults0,
        s1 \in {EmptyMap} \cup {("a" :> r1) : r1 \in DPActionResults1} }

DPPolicyStates ==
    { [actions |-> ("a" :> One)],
      [actions |-> ("a" :> R(1, 2) @@ "b" :> R(1, 2))],
      [actions |-> ("a" :> R(1, 2))],
      [actions |-> ("a" :> One @@ "b" :> R(1, 2))] }

\* Policies with an entry for any subset of the states
DPPolicies ==
    { [states |-> [s \in D |-> IF s = 0 THEN p0 ELSE [actions |-> ("a" :> One)]]] :
        D \in SUBSET {0, 1}, p0 \in DPPolicyStates }

DPInitValues ==
    { EmptyMap,
      (0 :> One @@ 1 :> One @@ 2 :> One),
      (0 :> R(-1, 4) @@ 1 :> One) }

DPDiscounts == { One, R(1, 2) }

\* ------------------------------------------------- DP: the state machine --
\* The arguments env, policy, prev_state_values and discount of the public
\* functions of solver/mod.rs, drawn from the sets above; every action is one
\* call of one of these functions, in any order, with its result kept. The
\* callers' own loops (coin_bet::run stops on delta < 1e-7) are not part of it.
DPStart ==
    /\ env \in DPEnvs
    /\ policy \in DPPolicies
    /\ state_values \in DPInitValues
    /\ discount \in DPDiscounts
    /\ prev_state_values = EmptyMap
    /\ max_delta = Zero
    /\ dp_op = "init"
    /\ sweeps = 0

DPRunning == dp_op \notin {"evaluate_policy: panic", "make_greedy_policy: panic"}

\* let (new_state_values, delta) = evaluate_policy(&env, &policy, &state_values, d);
\* state_values = new_state_values;
EvaluatePolicy ==
    /\ DPRunning
    /\ sweeps < MaxSweeps
    /\ LET r == evaluate_policy(env, policy, state_values, discount) IN
       IF r.panic
       THEN /\ dp_op' = "evaluate_policy: panic"
            /\ UNCHANGED <<state_values, prev_state_values, max_delta, sweeps>>
       ELSE /\ dp_op' = "evaluate_policy"
            /\ prev_state_values' = state_values
            /\ state_values' = r.new_state_values
            /\ max_delta' = r.max_delta
            /\ sweeps' = sweeps + 1
    /\ UNCHANGED <<env, policy, discount>>
    /\ UNCHANGED not_dp_vars

\* let (new_state_values, delta) = iterate_state_value(&env, &state_values, d);
\* state_values = new_state_values;
IterateStateValue ==
    /\ DPRunning
    /\ sweeps < MaxSweeps
    /\ LET r == iterate_state_value(env, state_values, discount) IN
       /\ dp_op' = "iterate_state_value"
       /\ prev_state_values' = state_values
       /\ state_values' = r.new_state_values
       /\ max_delta' = r.max_delta
       /\ sweeps' = sweeps + 1
    /\ UNCHANGED <<env, policy, discount>>
    /\ UNCHANGED not_dp_vars

\* policy = make_greedy_policy(&env, &state_values, d);
MakeGreedyPolicy ==
    /\ DPRunning
    /\ dp_op # "make_greedy_policy"
    /\ LET r == make_greedy_policy(env, state_values, discount) IN
       IF r.panic
       THEN /\ dp_op' = "make_greedy_policy: panic"
            /\ UNCHANGED policy
       ELSE /\ dp_op' = "make_greedy_policy"
            /\ policy' = r.policy
    /\ UNCHANGED <<env, state_values, prev_state_values, max_delta, discount, sweeps>>
    /\ UNCHANGED not_dp_vars

\* policy = make_uniform_policy(&env), callable in every state (coin_bet::run
\* calls it after its value iteration)
MakeUniformPolicy ==
    /\ DPRunning
    /\ dp_op' = "make_uniform_policy"
    /\ policy' = make_uniform_policy(env)
    /\ UNCHANGED <<env, state_values, prev_state_values, max_delta, discount, sweeps>>
    /\ UNCHANGED not_dp_vars

\* The DP solver is not in use
DPIdle ==
    /\ env = [states |-> EmptyMap]
    /\ policy = [states |-> EmptyMap]
    /\ state_values = EmptyMap
    /\ prev_state_values = EmptyMap
    /\ max_delta = Zero
    /\ discount = One
    /\ dp_op = "idle"
    /\ sweeps = 0

\* --------------------------------------------------- coin_bet/mod.rs --
LIMIT == 100

IMin(a, b) == IF a < b THEN a ELSE b
IMax(a, b) == IF a > b THEN a ELSE b

\* The body of the loop over bets: the two inserts into action_dests
coin_action_dests(p, m, bet) ==
    MapInsert(
        MapInsert(EmptyMap, IMin(m + bet, LIMIT),
                  [probability |-> p,
                   reward |-> IF m + bet >= LIMIT THEN One ELSE Zero]),
        IMax(m - bet, 0),
        [probability |-> RSub(One, p), reward |-> Zero])

\* The StateActions built for one amount of money
coin_state_actions(p, m) ==
    LET max_bet == IMin(m, LIMIT - m) IN
    [actions |-> [bet \in 0..max_bet |->
                    [dest_states |-> coin_action_dests(p, m, bet)]]]

CoinHeadsProbs == { R(49, 100), R(1, 2), R(1, 4), R(3, 4) }

CoinStart ==
    /\ heads_prob \in CoinHeadsProbs
    /\ coin_states = EmptyMap
    /\ money = 1
    /\ coin_pc = "loop"

CoinIdle ==
    /\ heads_prob = One
    /\ coin_states = EmptyMap
    /\ money = 0
    /\ coin_pc = "idle"

\* One iteration of `for money in 1..LIMIT`
CoinAddState ==
    /\ coin_pc = "loop"
    /\ money < LIMIT
    /\ coin_states' = MapInsert(coin_states, money,
                                coin_state_actions(heads_prob, money))
    /\ money' = money + 1
    /\ UNCHANGED <<heads_prob, coin_pc>>
    /\ UNCHANGED not_coin_vars

\* The loop is over: add the final states and return the Env
CoinAddFinalStates ==
    /\ coin_pc = "loop"
    /\ money = LIMIT
    /\ coin_states' = MapInsert(MapInsert(coin_states, 0, [actions |-> EmptyMap]),
                                LIMIT, [actions |-> EmptyMap])
    /\ coin_pc' = "done"
    /\ UNCHANGED <<heads_prob, money>>
    /\ UNCHANGED not_coin_vars

\* ------------------------------------------ solver/monte_carlo.rs --
None == "None"

\* ValueEstimate::default()
ValueEstimateDefault == [avg |-> Zero, count |-> 0]

\* Faulty variant: the old average is not weighted by its count
ValueEstimate_update_unweighted(self, value) ==
    [avg |-> RDivInt(RAdd(self.avg, value), self.count + 1),
     count |-> self.count + 1]

\* ValueEstimate::update
ValueEstimate_update(self, value) ==
    [avg |-> RDivInt(RAdd(RMul(self.avg, R(self.count, 1)), value), self.count + 1),
     count |-> self.count + 1]

\* Faulty variant: every visit updates the estimate (the deduplication set is ignored)
mc_update_loop_body_every_visit(st, step, disc) ==
    LET returns == RAdd(RMul(st.returns, disc), step[3])
        state == step[1]
        old == IF state \in DOMAIN st.state_values
               THEN st.state_values[state] ELSE ValueEstimateDefault
    IN [state_values |-> MapInsert(st.state_values, state,
                                   ValueEstimate_update(old, returns)),
        updated_states |-> st.updated_states \cup {state},
        returns |-> returns]

\* Body of `while !episode.is_empty()` for the popped step
mc_update_loop_body(st, step, disc) ==
    LET returns == RAdd(RMul(st.returns, disc), step[3])
        state == step[1]
        old == IF state \in DOMAIN st.state_values
               THEN st.state_values[state] ELSE ValueEstimateDefault
    IN IF state \notin st.updated_states
       THEN [state_values |-> MapInsert(st.state_values, state,
                                        ValueEstimate_update(old, returns)),
             updated_states |-> st.updated_states \cup {state},
             returns |-> returns]
       ELSE [state_values |-> st.state_values,
             updated_states |-> st.updated_states,
             returns |-> returns]

\* `while !episode.is_empty()`: pops the steps from the end of the episode
RECURSIVE mc_update_loop(_, _, _)
mc_update_loop(st, episode, disc) ==
    IF episode = <<>> THEN st
    ELSE mc_update_loop(mc_update_loop_body(st, episode[Len(episode)], disc),
                        SubSeq(episode, 1, Len(episode) - 1), disc)

\* "Update state values from this episode"
mc_update_state_values(values, episode, disc) ==
    mc_update_loop([state_values |-> values, updated_states |-> {},
                    returns |-> Zero], episode, disc).state_values

\* ------------------------------------------------------ MC: the inputs --
\* Longest episode the environment produces
MaxEpisodeLen == 2

\* Largest value of `iterations`
MaxIterations == 2

MCStates == {"A", "B"}
MCActions == {"x", "y"}
MCRewards == {Zero, One}
MCDiscounts == {One, R(1, 2)}

\* start_state(): any state
mc_start_state == MCStates

\* next_state(state, action): any successor or none, with any reward; the
\* environment ends every episode within MaxEpisodeLen steps
mc_next_state(state, action, steps_so_far) ==
    {<<n, r>> : n \in (IF steps_so_far + 1 < MaxEpisodeLen THEN MCStates ELSE {})
                        \cup {None},
                r \in MCRewards}

\* ------------------------------------------------- MC: the state machine --
MCStart ==
    /\ mc_policy \in [MCStates -> MCActions]
    /\ mc_discount \in MCDiscounts
    /\ mc_iterations \in 0..MaxIterations
    /\ mc_state_values = EmptyMap
    /\ mc_state = None
    /\ mc_episode = <<>>
    /\ mc_done = 0
    /\ mc_pc = "outer"
    /\ mc_result = EmptyMap
    /\ mc_log = <<>>

MCIdle ==
    /\ mc_policy = EmptyMap
    /\ mc_discount = One
    /\ mc_iterations = 0
    /\ mc_state_values = EmptyMap
    /\ mc_state = None
    /\ mc_episode = <<>>
    /\ mc_done = 0
    /\ mc_pc = "idle"
    /\ mc_result = EmptyMap
    /\ mc_log = <<>>

\* for _ in 0..iterations { let mut state = start_state(); episode = Vec::new()
MCStartEpisode ==
    /\ mc_pc = "outer"
    /\ mc_done < mc_iterations
    /\ mc_state' \in mc_start_state
    /\ mc_episode' = <<>>
    /\ mc_pc' = "episode"
    /\ UNCHANGED <<mc_policy, mc_discount, mc_iterations, mc_state_values,
                   mc_done, mc_result, mc_log>>
    /\ UNCHANGED not_mc_vars

\* One pass of the episode loop that finds a successor state
MCStep ==
    /\ mc_pc = "episode"
    /\ LET action == mc_policy[mc_state] IN
       \E nr \in mc_next_state(mc_state, action, Len(mc_episode)) :
          /\ nr[1] # None
          /\ mc_episode' = Append(mc_episode, <<mc_state, action, nr[2]>>)
          /\ mc_state' = nr[1]
    /\ UNCHANGED <<mc_policy, mc_discount, mc_iterations, mc_state_values,
                   mc_done, mc_pc, mc_result, mc_log>>
    /\ UNCHANGED not_mc_vars

\* The pass of the episode loop that finds no successor: break, then update
\* the state values from the episode
MCFinalStep ==
    /\ mc_pc = "episode"
    /\ LET action == mc_policy[mc_state] IN
       \E nr \in mc_next_state(mc_state, action, Len(mc_episode)) :
          /\ nr[1] = None
          /\ LET episode == Append(mc_episode, <<mc_state, action, nr[2]>>) IN
             /\ mc_state_values' =
                   mc_update_state_values(mc_state_values, episode, mc_discount)
             /\ mc_log' = Append(mc_log, episode)
          /\ mc_episode' = <<>>
          /\ mc_done' = mc_done + 1
          /\ mc_pc' = "outer"
    /\ UNCHANGED <<mc_policy, mc_discount, mc_iterations, mc_state, mc_result>>
    /\ UNCHANGED not_mc_vars

\* return state_values.into_iter().map(|(state, e)| (state, e.avg)).collect()
MCReturn ==
    /\ mc_pc = "outer"
    /\ mc_done = mc_iterations
    /\ mc_result' = [s \in DOMAIN mc_state_values |-> mc_state_values[s].avg]
    /\ mc_pc' = "returned"
    /\ UNCHANGED <<mc_policy, mc_discount, mc_iterations, mc_state_values,
                   mc_state, mc_episode, mc_done, mc_log>>
    /\ UNCHANGED not_mc_vars

\* ---------------------------------------------------- solver/td.rs --
\* Faulty variant: a single action of maximal value, ties dropped
td_greedy_actions_single(state_action_values) ==
    LET max_value == RFoldMax(state_action_values) IN
    {CHOOSE a \in DOMAIN state_action_values :
        LtTolerance(RAbs(RSub(state_action_values[a], max_value)))}

\* The actions with max action value ("can be multiple!")
td_greedy_actions(state_action_values) ==
    LET max_value == RFoldMax(state_action_values) IN
    {a \in DOMAIN state_action_values :
        LtTolerance(RAbs(RSub(state_action_values[a], max_value)))}

\* soft_greedy_action: the actions it can return when rand::random::<f64>()
\* yields draw; the empty set when assert!(greedy_actions.len() > 0) fails.
\* random_actions is what random_action(&state) can return.
soft_greedy_action(random_actions, action_values, state, exploration_fraction, draw) ==
    IF state \notin DOMAIN action_values \/ RLe(draw, exploration_fraction)
    THEN random_actions
    ELSE td_greedy_actions(action_values[state])

\* expected_returns; its assertions hold for a non-empty map of finite values
expected_returns(state_action_values, exploration_fraction) ==
    IF Cardinality(DOMAIN state_action_values) = 1
    THEN state_action_values[CHOOSE a \in DOMAIN state_action_values : TRUE]
    ELSE
      LET max_value == RFoldMax(state_action_values)
          greedy_actions_count ==
            Cardinality({a \in DOMAIN state_action_values :
                LtTolerance(RAbs(RSub(state_action_values[a], max_value)))})
          others_probability ==
            RDivInt(exploration_fraction, Cardinality(DOMAIN state_action_values))
          greedy_probability ==
            RAdd(others_probability,
                 RDivInt(RSub(One, exploration_fraction), greedy_actions_count))
      IN RSum([a \in DOMAIN state_action_values |->
                 IF LtTolerance(RAbs(RSub(state_action_values[a], max_value)))
                 THEN RMul(greedy_probability, state_action_values[a])
                 ELSE RMul(others_probability, state_action_values[a])])

\* action_values.get(&state).map_or(&0.0, |av| av.get(&action).unwrap_or(&0.0))
td_state_action_value(action_values, state, action) ==
    IF state \in DOMAIN action_values
    THEN GetOrZero(action_values[state], action)
    ELSE Zero

\* Faulty variant: the state's map is replaced by one holding only the new entry
td_insert_replacing(action_values, state, action, value) ==
    MapInsert(action_values, state, MapInsert(EmptyMap, action, value))

\* Faulty variant: entry(state).or_default() alone, the action never recorded
td_insert_default_only(action_values, state, action, value) ==
    MapInsert(action_values, state,
              IF state \in DOMAIN action_values
              THEN action_values[state] ELSE EmptyMap)

\* action_values.entry(state).or_default().insert(action, value)
td_insert(action_values, state, action, value) ==
    MapInsert(action_values, state,
              MapInsert(IF state \in DOMAIN action_values
                        THEN action_values[state] ELSE EmptyMap,
                        action, value))

\* ------------------------------------- TD: the random walk of the tests --
RandomWalkState == {"A", "B", "C", "D", "E"}
RandomWalkAction == {"Left", "Right"}

random_walk_start_state == "C"

\* What random_walk_random_action can return
random_walk_random_action(state) == RandomWalkAction

random_walk_next_state(state, action) ==
    IF action = "Left"
    THEN CASE state = "A" -> <<None, Zero>>
           [] state = "B" -> <<"A", Zero>>
           [] state = "C" -> <<"B", Zero>>
           [] state = "D" -> <<"C", Zero>>
           [] state = "E" -> <<"D", Zero>>
    ELSE CASE state = "A" -> <<"B", Zero>>
           [] state = "B" -> <<"C", Zero>>
           [] state = "C" -> <<"D", Zero>>
           [] state = "D" -> <<"E", Zero>>
           [] state = "E" -> <<None, One>>

\* ------------------------- TD: an environment with bounded episodes --
\* A descent: every move goes down, Left by one state and Right out of the
\* episode at once, so every episode ends within two passes
DescentState == {"A", "B"}

descent_start_state == "B"

descent_random_action(state) == RandomWalkAction

descent_next_state(state, action) ==
    IF action = "Left"
    THEN CASE state = "A" -> <<None, One>>
           [] state = "B" -> <<"A", Zero>>
    ELSE <<None, Zero>>

\* The callables start_state, random_action, next_state of environment e
td_start_state(e) ==
    IF e = "random_walk" THEN random_walk_start_state ELSE descent_start_state

td_random_action(e, state) ==
    IF e = "random_walk" THEN random_walk_random_action(state)
    ELSE descent_random_action(state)

td_next_state(e, state, action) ==
    IF e = "random_walk" THEN random_walk_next_state(state, action)
    ELSE descent_next_state(state, action)

\* ------------------------------------------------------ TD: the inputs --
\* Passes of the episode loop explored, over all episodes
MaxTDSteps == 8

\* Largest value of `iterations`
MaxTDIterations == 2

TDDiscounts == {One, R(1, 2)}
TDExplorationFractions == {Zero, R(1, 2), One}
TDAlphas == {R(1, 2)}

\* Values rand::random::<f64>() yields
TDDraws == {Zero, R(1, 2), R(3, 4)}

\* ------------------------------------------------- TD: the state machine --
NoStep == [state |-> None, action |-> None, reward |-> Zero, new_state |-> None]

TDStart ==
    /\ td_discount \in TDDiscounts
    /\ td_exploration_fraction \in TDExplorationFractions
    /\ td_alpha \in TDAlphas
    /\ td_iterations \in 0..MaxTDIterations
    /\ td_action_values = EmptyMap
    /\ td_state = None
    /\ td_done = 0
    /\ td_pc = "outer"
    /\ td_last = NoStep
    /\ td_steps = 0
    /\ td_env = "random_walk"

\* The same call with the callables of the descent
TDStartDescent ==
    /\ td_discount \in TDDiscounts
    /\ td_exploration_fraction \in TDExplorationFractions
    /\ td_alpha \in TDAlphas
    /\ td_iterations \in 0..MaxTDIterations
    /\ td_action_values = EmptyMap
    /\ td_state = None
    /\ td_done = 0
    /\ td_pc = "outer"
    /\ td_last = NoStep
    /\ td_steps = 0
    /\ td_env = "descent"

TDIdle ==
    /\ td_discount = One
    /\ td_exploration_fraction = Zero
    /\ td_alpha = One
    /\ td_iterations = 0
    /\ td_action_values = EmptyMap
    /\ td_state = None
    /\ td_done = 0
    /\ td_pc = "idle"
    /\ td_last = NoStep
    /\ td_steps = 0
    /\ td_env = None

\* for _ in 0..iterations { let mut state = start_state();
TDStartEpisode ==
    /\ td_pc = "outer"
    /\ td_done < td_iterations
    /\ td_state' = td_start_state(td_env)
    /\ td_pc' = "episode"
    /\ UNCHANGED <<td_discount, td_exploration_fraction, td_alpha, td_iterations,
                   td_action_values, td_done, td_last, td_steps, td_env>>
    /\ UNCHANGED not_td_vars

\* A pass of the episode loop in which next_state returns a successor
TDStep ==
    /\ td_pc = "episode"
    /\ td_steps < MaxTDSteps
    /\ \E draw \in TDDraws :
       LET actions == soft_greedy_action(td_random_action(td_env, td_state),
                          td_action_values, td_state, td_exploration_fraction, draw)
       IN
       IF actions = {}
       THEN /\ td_pc' = "panic"
            /\ UNCHANGED <<td_action_values, td_state, td_last, td_steps>>
       ELSE
         \E action \in actions :
           LET state_action_value ==
                 td_state_action_value(td_action_values, td_state, action)
               nr == td_next_state(td_env, td_state, action)
               new_state == nr[1]
               reward == nr[2]
               returns == IF new_state \in DOMAIN td_action_values
                          THEN expected_returns(td_action_values[new_state],
                                                td_exploration_fraction)
                          ELSE Zero
               new_state_action_value ==
                 RAdd(state_action_value,
                      RMul(td_alpha,
                           RSub(RAdd(reward, RMul(td_discount, returns)),
                                state_action_value)))
           IN /\ new_state # None
              /\ td_action_values' = td_insert(td_action_values, td_state, action,
                                               new_state_action_value)
              /\ td_state' = new_state
              /\ td_last' = [state |-> td_state, action |-> action,
                             reward |-> reward, new_state |-> new_state]
              /\ td_steps' = td_steps + 1
              /\ UNCHANGED td_pc
    /\ UNCHANGED <<td_discount, td_exploration_fraction, td_alpha, td_iterations,
                   td_done, td_env>>
    /\ UNCHANGED not_td_vars

\* Faulty variant: the terminal pass does not advance the outer loop
TDFinalStep_uncounted ==
    /\ td_pc = "episode"
    /\ td_steps < MaxTDSteps
    /\ \E draw \in TDDraws :
       LET actions == soft_greedy_action(td_random_action(td_env, td_state),
                          td_action_values, td_state, td_exploration_fraction, draw)
       IN
       \E action \in actions :
           LET state_action_value ==
                 td_state_action_value(td_action_values, td_state, action)
               nr == td_next_state(td_env, td_state, action)
               new_state == nr[1]
               reward == nr[2]
               new_state_action_value ==
                 RAdd(state_action_value,
                      RMul(td_alpha, RSub(reward, state_action_value)))
           IN /\ new_state = None
              /\ td_action_values' = td_insert(td_action_values, td_state, action,
                                               new_state_action_value)
              /\ td_last' = [state |-> td_state, action |-> action,
                             reward |-> reward, new_state |-> None]
              /\ td_steps' = td_steps + 1
              /\ td_done' = td_done
              /\ td_pc' = "outer"
              /\ UNCHANGED td_state
    /\ UNCHANGED <<td_discount, td_exploration_fraction, td_alpha, td_iterations,
                   td_env>>
    /\ UNCHANGED not_td_vars

\* The pass of the episode loop in which next_state returns no successor
TDFinalStep ==
    /\ td_pc = "episode"
    /\ td_steps < MaxTDSteps
    /\ \E draw \in TDDraws :
       LET actions == soft_greedy_action(td_random_action(td_env, td_state),
                          td_action_values, td_state, td_exploration_fraction, draw)
       IN
       \E action \in actions :
           LET state_action_value ==
                 td_state_action_value(td_action_values, td_state, action)
               nr == td_next_state(td_env, td_state, action)
               new_state == nr[1]
               reward == nr[2]
               new_state_action_value ==
                 RAdd(state_action_value,
                      RMul(td_alpha, RSub(reward, state_action_value)))
           IN /\ new_state = None
              /\ td_action_values' = td_insert(td_action_values, td_state, action,
                                               new_state_action_value)
              /\ td_last' = [state |-> td_state, action |-> action,
                             reward |-> reward, new_state |-> None]
              /\ td_steps' = td_steps + 1
              /\ td_done' = td_done + 1
              /\ td_pc' = "outer"
              /\ UNCHANGED td_state
    /\ UNCHANGED <<td_discount, td_exploration_fraction, td_alpha, td_iterations,
                   td_env>>
    /\ UNCHANGED not_td_vars

\* The outer loop is over: action_values is returned
TDReturn ==
    /\ td_pc = "outer"
    /\ td_done = td_iterations
    /\ td_pc' = "returned"
    /\ UNCHANGED <<td_discount, td_exploration_fraction, td_alpha, td_iterations,
                   td_action_values, td_state, td_done, td_last, td_steps, td_env>>
    /\ UNCHANGED not_td_vars

\* ------------------------------- solver/monte_carlo.rs: find_policy --
\* StateActionEstimate::default()
StateActionEstimateDefault == [actions |-> EmptyMap]

\* The orders in which a HashMap can yield the keys of set S
IterationOrders(S) ==
    {o \in [1..Cardinality(S) -> S] : \A i, j \in DOMAIN o : o[i] = o[j] => i = j}

\* Faulty variant: the element of least average is kept
RECURSIVE max_by_fold_least(_, _, _)
max_by_fold_least(actions, order, best) ==
    IF order = <<>> THEN best
    ELSE LET y == Head(order) IN
         max_by_fold_least(actions, Tail(order),
             IF best = None \/ ~RLt(actions[best].avg, actions[y].avg)
             THEN y ELSE best)

\* Iterator::max_by with |(_, e1), (_, e2)| e1.avg.partial_cmp(&e2.avg): the
\* fold keeps the element held so far only when it compares Greater
RECURSIVE max_by_fold(_, _, _)
max_by_fold(actions, order, best) ==
    IF order = <<>> THEN best
    ELSE LET y == Head(order) IN
         max_by_fold(actions, Tail(order),
             IF best = None \/ ~RLt(actions[y].avg, actions[best].avg)
             THEN y ELSE best)

\* What .iter().max_by(...).unwrap().0 can be, over the iteration orders of the map
max_by_avg(actions) ==
    {max_by_fold(actions, o, None) : o \in IterationOrders(DOMAIN actions)}

\* "Determine the next action": the pairs <<action, branch>> the match can
\* yield when rand::random::<f64>() yields draw
fp_choose_action(random_actions, action_values, state, exploration_fraction, draw) ==
    IF state \notin DOMAIN action_values
    THEN {<<a, "None">> : a \in random_actions}
    ELSE IF RLe(draw, exploration_fraction)
         THEN {<<a, "explore">> : a \in random_actions}
         ELSE {<<a, "max_by">> : a \in max_by_avg(action_values[state].actions)}

\* Faulty variant: an insert does not replace a return observed before it
RECURSIVE fp_observe_loop_keep_first(_, _, _, _)
fp_observe_loop_keep_first(observed_state_actions, returns, episode, disc) ==
    IF episode = <<>> THEN observed_state_actions
    ELSE LET step == episode[Len(episode)]
             new_returns == RAdd(RMul(returns, disc), step[3])
             key == <<step[1], step[2]>>
         IN fp_observe_loop_keep_first(
                IF key \in DOMAIN observed_state_actions
                THEN observed_state_actions
                ELSE MapInsert(observed_state_actions, key, new_returns),
                new_returns, SubSeq(episode, 1, Len(episode) - 1), disc)

\* `while !episode.is_empty()`: pops the steps from the end of the episode and
\* inserts the return of each (state, action) into observed_state_actions
RECURSIVE fp_observe_loop(_, _, _, _)
fp_observe_loop(observed_state_actions, returns, episode, disc) ==
    IF episode = <<>> THEN observed_state_actions
    ELSE LET step == episode[Len(episode)]
             new_returns == RAdd(RMul(returns, disc), step[3])
         IN fp_observe_loop(
                MapInsert(observed_state_actions, <<step[1], step[2]>>, new_returns),
                new_returns, SubSeq(episode, 1, Len(episode) - 1), disc)

\* Body of `for ((state, action), returns) in observed_state_actions`
fp_update_entry(action_values, state, action, returns) ==
    LET estimate == IF state \in DOMAIN action_values
                    THEN action_values[state] ELSE StateActionEstimateDefault
        value == IF action \in DOMAIN estimate.actions
                 THEN estimate.actions[action] ELSE ValueEstimateDefault
    IN MapInsert(action_values, state,
           [actions |-> MapInsert(estimate.actions, action,
                                  ValueEstimate_update(value, returns))])

\* `for ((state, action), returns) in observed_state_actions`
RECURSIVE fp_update_loop(_, _)
fp_update_loop(action_values, observed_state_actions) ==
    IF DOMAIN observed_state_actions = {} THEN action_values
    ELSE LET k == CHOOSE k \in DOMAIN observed_state_actions : TRUE IN
         fp_update_loop(
             fp_update_entry(action_values, k[1], k[2], observed_state_actions[k]),
             [j \in DOMAIN observed_state_actions \ {k} |-> observed_state_actions[j]])

\* "Update state values from this episode"
fp_update_action_values(action_values, episode, disc) ==
    fp_update_loop(action_values, fp_observe_loop(EmptyMap, Zero, episode, disc))

\* Faulty variant: every recorded action is kept, with equal probabilities
fp_policies_all_actions(action_values) ==
    {[states |-> [s \in DOMAIN action_values |->
                     [actions |-> [a \in DOMAIN action_values[s].actions |->
                         R(1, Cardinality(DOMAIN action_values[s].actions))]]]]}

\* The Policy values the final expression can build, over the iteration
\* orders of the action maps
fp_policies(action_values) ==
    {[states |-> [s \in DOMAIN action_values |->
                     [actions |-> MapInsert(EmptyMap, best_action[s], One)]]] :
        best_action \in {f \in [DOMAIN action_values -> MCActions] :
                           \A s \in DOMAIN action_values :
                               f[s] \in max_by_avg(action_values[s].actions)}}

\* ---------------------------------------------- MC control: the inputs --
\* Largest value of `iterations` given to find_policy
MaxFPIterations == 2

FPDiscounts == {R(1, 2)}
FPExplorationFractions == {Zero, R(1, 2)}

\* Values of rand::random::<f64>()
FPDraws == {Zero, R(3, 4)}

\* random_action(state): any action
fp_random_action(state) == MCActions

\* No call of rand::random::<f64>() was made
NoDraw == <<0, 0>>

\* Nothing selected yet
NoChoice == [state |-> None, draw |-> NoDraw, branch |-> None, action |-> None,
             reward |-> Zero]

\* --------------------------------------- MC control: the state machine --
FPStart ==
    /\ fp_discount \in FPDiscounts
    /\ fp_exploration_fraction \in FPExplorationFractions
    /\ fp_iterations \in 0..MaxFPIterations
    /\ fp_action_values = EmptyMap
    /\ fp_state = None
    /\ fp_episode = <<>>
    /\ fp_done = 0
    /\ fp_pc = "outer"
    /\ fp_result = [states |-> EmptyMap]
    /\ fp_last = NoChoice
    /\ fp_visited = {}

FPIdle ==
    /\ fp_discount = One
    /\ fp_exploration_fraction = Zero
    /\ fp_iterations = 0
    /\ fp_action_values = EmptyMap
    /\ fp_state = None
    /\ fp_episode = <<>>
    /\ fp_done = 0
    /\ fp_pc = "idle"
    /\ fp_result = [states |-> EmptyMap]
    /\ fp_last = NoChoice
    /\ fp_visited = {}

\* for _ in 0..iterations { let mut state = start_state(); episode = Vec::new()
FPStartEpisode ==
    /\ fp_pc = "outer"
    /\ fp_done < fp_iterations
    /\ fp_state' \in mc_start_state
    /\ fp_episode' = <<>>
    /\ fp_pc' = "episode"
    /\ UNCHANGED <<fp_discount, fp_exploration_fraction, fp_iterations,
                   fp_action_values, fp_done, fp_result, fp_last, fp_visited>>
    /\ UNCHANGED not_fp_vars

\* The draws a pass of the episode loop can make: none for an unseen state
fp_draws(action_values, state) ==
    IF state \in DOMAIN action_values THEN FPDraws ELSE {NoDraw}

\* One pass of the episode loop that finds a successor state
FPStep ==
    /\ fp_pc = "episode"
    /\ \E draw \in fp_draws(fp_action_values, fp_state) :
       \E choice \in fp_choose_action(fp_random_action(fp_state), fp_action_values,
                                      fp_state, fp_exploration_fraction, draw) :
       \E nr \in mc_next_state(fp_state, choice[1], Len(fp_episode)) :
          /\ nr[1] # None
          /\ fp_episode' = Append(fp_episode, <<fp_state, choice[1], nr[2]>>)
          /\ fp_state' = nr[1]
          /\ fp_last' = [state |-> fp_state, draw |-> draw,
                         branch |-> choice[2], action |-> choice[1],
                         reward |-> nr[2]]
          /\ fp_visited' = fp_visited \cup {fp_state}
    /\ UNCHANGED <<fp_discount, fp_exploration_fraction, fp_iterations,
                   fp_action_values, fp_done, fp_pc, fp_result>>
    /\ UNCHANGED not_fp_vars

\* The pass of the episode loop that finds no successor: break, then update
\* the action values from the episode
FPFinalStep ==
    /\ fp_pc = "episode"
    /\ \E draw \in fp_draws(fp_action_values, fp_state) :
       \E choice \in fp_choose_action(fp_random_action(fp_state), fp_action_values,
                                      fp_state, fp_exploration_fraction, draw) :
       \E nr \in mc_next_state(fp_state, choice[1], Len(fp_episode)) :
          /\ nr[1] = None
          /\ fp_action_values' =
                fp_update_action_values(fp_action_values,
                    Append(fp_episode, <<fp_state, choice[1], nr[2]>>), fp_discount)
          /\ fp_last' = [state |-> fp_state, draw |-> draw,
                         branch |-> choice[2], action |-> choice[1],
                         reward |-> nr[2]]
          /\ fp_visited' = fp_visited \cup {fp_state}
    /\ fp_episode' = <<>>
    /\ fp_done' = fp_done + 1
    /\ fp_pc' = "outer"
    /\ UNCHANGED <<fp_discount, fp_exploration_fraction, fp_iterations,
                   fp_state, fp_result>>
    /\ UNCHANGED not_fp_vars

\* Policy { states: action_values.into_iter().map(...).collect() }
FPReturn ==
    /\ fp_pc = "outer"
    /\ fp_done = fp_iterations
    /\ fp_result' \in fp_policies(fp_action_values)
    /\ fp_pc' = "returned"
    /\ UNCHANGED <<fp_discount, fp_exploration_fraction, fp_iterations,
                   fp_action_values, fp_state, fp_episode, fp_done, fp_last,
                   fp_visited>>
    /\ UNCHANGED not_fp_vars

\* ---------------------------------------------------- solver/tile.rs --
\* The largest and the smallest i32
I32_MAX == 2147483647
I32_MIN == (-I32_MAX) - 1

\* Whether x - y leaves the range of i32
i32_sub_overflows(x, y) ==
    \/ y < 0 /\ x > I32_MAX + y
    \/ y > 0 /\ x < I32_MIN + y

\* x - y reduced modulo 2^32 into the range of i32
i32_wrapping_sub(x, y) ==
    IF y < 0 /\ x > I32_MAX + y THEN (((x - I32_MAX) - 1) - y) + I32_MIN
    ELSE IF y > 0 /\ x < I32_MIN + y THEN (((x - I32_MIN) - y) + I32_MAX) + 1
    ELSE x - y

\* x / y for y # 0
RDiv(x, y) ==
    IF y[1] > 0 THEN Norm(x[1] * y[2], x[2] * y[1])
    ELSE Norm(-(x[1] * y[2]), x[2] * (-y[1]))

\* `x as usize` for a finite f64: truncation, negative values give 0
f64_as_usize(x) == IF x[1] < 0 THEN 0 ELSE x[1] \div x[2]

\* Bounds::new
Bounds_new(min, max) == [min |-> min, max |-> max]

\* ContinuousDimension::new
ContinuousDimension_new(min, max, step_count) ==
    [bounds |-> Bounds_new(min, max), step_count |-> step_count]

\* .iter().fold(1, |acc, p| acc * p.step_count)
RECURSIVE fold_step_count(_, _)
fold_step_count(partitions, acc) ==
    IF partitions = <<>> THEN acc
    ELSE fold_step_count(Tail(partitions), acc * Head(partitions).step_count)

\* Tiling::from_dimensions_and_origin
from_dimensions_and_origin(continuous_dimensions, integer_dimensions, origin) ==
    LET c_len == Len(continuous_dimensions)
        i_len == Len(integer_dimensions)
        step_size ==
          [i \in 1..c_len |->
             RDivInt(RSub(continuous_dimensions[i].bounds.max,
                          continuous_dimensions[i].bounds.min),
                     continuous_dimensions[i].step_count)]
        continuous_partitions ==
          [i \in 1..c_len |->
             [origin |-> origin[i], step_size |-> step_size[i],
              step_count |-> continuous_dimensions[i].step_count]]
        integer_partitions ==
          [i \in 1..i_len |->
             [origin |-> integer_dimensions[i].min,
              step_count |-> integer_dimensions[i].max - integer_dimensions[i].min]]
    IN [continuous_partitions |-> continuous_partitions,
        integer_partitions |-> integer_partitions,
        tile_count |-> fold_step_count(continuous_partitions, 1)
                         * fold_step_count(integer_partitions, 1)]

\* Body of `for i in (0..pi.len()).rev()`; the subtraction x - p.origin panics
\* on overflow when overflow checks are compiled in and wraps otherwise
get_tile_integer_body(p, x, st, overflow_checks) ==
    IF st.panic \/ (overflow_checks /\ i32_sub_overflows(x, p.origin))
    THEN [panic |-> TRUE, offset |-> st.offset]
    ELSE LET index == IMin(IMax(i32_wrapping_sub(x, p.origin), 0), p.step_count - 1)
         IN [panic |-> FALSE, offset |-> st.offset * p.step_count + index]

\* `for i in (0..pi.len()).rev()`, i counted from 1
RECURSIVE get_tile_integer_loop(_, _, _, _, _)
get_tile_integer_loop(self, pi, i, st, overflow_checks) ==
    IF i = 0 THEN st
    ELSE get_tile_integer_loop(self, pi, i - 1,
             get_tile_integer_body(self.integer_partitions[i], pi[i], st,
                                   overflow_checks),
             overflow_checks)

\* Body of `for i in (0..pc.len()).rev()`
get_tile_continuous_body(p, x, offset) ==
    LET step == RMax(RDiv(RSub(x, p.origin), p.step_size), Zero)
        index == IMin(f64_as_usize(step), p.step_count - 1)
    IN offset * p.step_count + index

\* `for i in (0..pc.len()).rev()`, i counted from 1
RECURSIVE get_tile_continuous_loop(_, _, _, _)
get_tile_continuous_loop(self, pc, i, offset) ==
    IF i = 0 THEN offset
    ELSE get_tile_continuous_loop(self, pc, i - 1,
             get_tile_continuous_body(self.continuous_partitions[i], pc[i], offset))

\* Faulty variant: the continuous dimensions are folded before the integer ones
get_tile_continuous_slowest(self, pc, pi, overflow_checks) ==
    LET offset == get_tile_continuous_loop(self, pc, Len(pc), 0)
        st == get_tile_integer_loop(self, pi, Len(pi),
                                    [panic |-> FALSE, offset |-> offset],
                                    overflow_checks)
    IN st

\* Tiling::get_tile: the index, or a panic
get_tile(self, pc, pi, overflow_checks) ==
    LET st == get_tile_integer_loop(self, pi, Len(pi),
                                    [panic |-> FALSE, offset |-> 0],
                                    overflow_checks)
    IN IF st.panic THEN st
       ELSE [panic |-> FALSE,
             offset |-> get_tile_continuous_loop(self, pc, Len(pc), st.offset)]

\* Faulty variant: every tiling gets the origin of the first one
RECURSIVE from_dimensions_loop_unshifted(_, _, _, _, _, _)
from_dimensions_loop_unshifted(continuous_dimensions, integer_dimensions, offset_step, origin, tilings, remaining) ==
    IF remaining = 0 THEN tilings
    ELSE from_dimensions_loop_unshifted(continuous_dimensions, integer_dimensions,
             offset_step, origin,
             Append(tilings,
                    from_dimensions_and_origin(continuous_dimensions,
                                               integer_dimensions, origin)),
             remaining - 1)

\* `for _ in 0..count` of TilingSet::from_dimensions
RECURSIVE from_dimensions_loop(_, _, _, _, _, _)
from_dimensions_loop(continuous_dimensions, integer_dimensions, offset_step, origin, tilings, remaining) ==
    IF remaining = 0 THEN tilings
    ELSE from_dimensions_loop(continuous_dimensions, integer_dimensions,
             offset_step,
             [i \in DOMAIN origin |-> RAdd(origin[i], offset_step[i])],
             Append(tilings,
                    from_dimensions_and_origin(continuous_dimensions,
                                               integer_dimensions, origin)),
             remaining - 1)

\* TilingSet::from_dimensions
from_dimensions(continuous_dimensions, integer_dimensions, count) ==
    LET c_len == Len(continuous_dimensions)
        origin == [i \in 1..c_len |-> continuous_dimensions[i].bounds.min]
        step_size ==
          [i \in 1..c_len |->
             RDivInt(RSub(continuous_dimensions[i].bounds.max,
                          continuous_dimensions[i].bounds.min),
                     continuous_dimensions[i].step_count)]
        offset_step == [i \in 1..c_len |-> RDivInt(step_size[i], count)]
    IN [tilings |-> from_dimensions_loop(continuous_dimensions, integer_dimensions,
                                         offset_step, origin, <<>>, count)]

\* TilingSet::count
TilingSet_count(self) == Len(self.tilings)

\* .iter().map(|t| t.tile_count).sum()
RECURSIVE sum_tile_count(_)
sum_tile_count(tilings) ==
    IF tilings = <<>> THEN 0
    ELSE Head(tilings).tile_count + sum_tile_count(Tail(tilings))

\* TilingSet::tile_count
TilingSet_tile_count(self) == sum_tile_count(self.tilings)

\* `for t in &self.tilings` of get_tiles
RECURSIVE get_tiles_loop(_, _, _, _, _, _)
get_tiles_loop(tilings, pc, pi, st, index_offset, overflow_checks) ==
    IF tilings = <<>> \/ st.panic THEN st
    ELSE LET t == Head(tilings)
             tile == get_tile(t, pc, pi, overflow_checks)
         IN get_tiles_loop(Tail(tilings), pc, pi,
                IF tile.panic
                THEN [panic |-> TRUE, feature_indices |-> st.feature_indices]
                ELSE [panic |-> FALSE,
                      feature_indices |->
                          Append(st.feature_indices, tile.offset + index_offset)],
                index_offset + t.tile_count, overflow_checks)

\* TilingSet::get_tiles: the indices, or a panic
get_tiles(self, pc, pi, overflow_checks) ==
    get_tiles_loop(self.tilings, pc, pi,
                   [panic |-> FALSE, feature_indices |-> <<>>], 0, overflow_checks)

\* ---------------------------------------------------- tile: the inputs --
\* Largest number of tilings
MaxTilings == 3

\* The dimensions of the tests, and a second integer dimension
TileContinuousDimensions ==
    {<<>>,
     <<ContinuousDimension_new(Zero, R(10, 1), 10)>>,
     <<ContinuousDimension_new(R(-10, 1), R(10, 1), 20),
       ContinuousDimension_new(Zero, R(10, 1), 10)>>}

TileIntegerDimensions ==
    {<<>>,
     <<Bounds_new(0, 5)>>,
     <<Bounds_new(0, 5), Bounds_new(-2, 3)>>}

\* Coordinates inside, on and outside the bounds; 1.4 is taken as 7/5, which
\* lies in the same tiles as the f64 nearest to it
TileContinuousCoordinates == {R(-1, 1), Zero, One, R(7, 5), R(19, 2), R(11, 1)}

TileIntegerCoordinates == {-1, 0, 1, 4, 5, I32_MAX}

\* The vectors of length n over the set S
Vectors(S, n) == [1..n -> S]

\* ---------------------------------------------- tile: the state machine --
NoTiles == [panic |-> FALSE, feature_indices |-> <<>>]

TileStart ==
    /\ tile_continuous_dimensions \in TileContinuousDimensions
    /\ tile_integer_dimensions \in TileIntegerDimensions
    /\ tile_count \in 1..MaxTilings
    /\ tile_overflow_checks \in BOOLEAN
    /\ tile_set = [tilings |-> <<>>]
    /\ tile_point_c = <<>>
    /\ tile_point_i = <<>>
    /\ tile_result = NoTiles
    /\ tile_op = "start"

TileIdle ==
    /\ tile_continuous_dimensions = <<>>
    /\ tile_integer_dimensions = <<>>
    /\ tile_count = 0
    /\ tile_overflow_checks = FALSE
    /\ tile_set = [tilings |-> <<>>]
    /\ tile_point_c = <<>>
    /\ tile_point_i = <<>>
    /\ tile_result = NoTiles
    /\ tile_op = "idle"

\* let tilings = TilingSet::from_dimensions(...)
TileFromDimensions ==
    /\ tile_op = "start"
    /\ tile_set' = from_dimensions(tile_continuous_dimensions,
                                   tile_integer_dimensions, tile_count)
    /\ tile_op' = "built"
    /\ UNCHANGED <<tile_continuous_dimensions, tile_integer_dimensions, tile_count,
                   tile_overflow_checks, tile_point_c, tile_point_i, tile_result>>
    /\ UNCHANGED not_tile_vars

\* tilings.get_tiles(&pc, &pi) for a point of the right dimensions
TileGetTiles ==
    /\ tile_op = "built"
    /\ \E pc \in Vectors(TileContinuousCoordinates, Len(tile_continuous_dimensions)) :
       \E pi \in Vectors(TileIntegerCoordinates, Len(tile_integer_dimensions)) :
          LET result == get_tiles(tile_set, pc, pi, tile_overflow_checks) IN
          /\ tile_point_c' = pc
          /\ tile_point_i' = pi
          /\ tile_result' = result
          /\ tile_op' = IF result.panic THEN "panic" ELSE "got"
    /\ UNCHANGED <<tile_continuous_dimensions, tile_integer_dimensions, tile_count,
                   tile_overflow_checks, tile_set>>
    /\ UNCHANGED not_tile_vars

\* --------------------------------------------- solver/approximate.rs --
\* DVector::dot
RECURSIVE dot_from(_, _, _)
dot_from(w, x, i) ==
    IF i > Len(w) THEN Zero
    ELSE RAdd(RMul(w[i], x[i]), dot_from(w, x, i + 1))

dot(w, x) == dot_from(w, x, 1)

\* DVector::repeat(n, 0.0)
DVector_repeat_zero(n) == [i \in 1..n |-> Zero]

\* Faulty variant: alpha is left out of the step
sg_update_unscaled(w, alpha, target, prev_action_value, features) ==
    [i \in DOMAIN w |->
        RAdd(w[i], RMul(RSub(target, prev_action_value), features[i]))]

\* w + alpha * (target - prev_action_value) * features
sg_update(w, alpha, target, prev_action_value, features) ==
    [i \in DOMAIN w |->
        RAdd(w[i], RMul(RMul(alpha, RSub(target, prev_action_value)), features[i]))]

\* Body of `for a in action_indices`: a replaces the best ones when its value
\* is greater than best_value
sg_best_body(st, a, value) ==
    IF IsNegInf(st.best_value) \/ RLt(st.best_value, value)
    THEN [best_action_indices |-> <<a>>, best_value |-> value]
    ELSE st

\* `for a in action_indices`, over the indices in the order of the iterator
RECURSIVE sg_best_loop(_, _, _)
sg_best_loop(st, action_indices, value_of) ==
    IF action_indices = <<>> THEN st
    ELSE sg_best_loop(sg_best_body(st, Head(action_indices),
                                   value_of[Head(action_indices)]),
                      Tail(action_indices), value_of)

\* The set of the elements of a sequence
Range(seq) == {seq[i] : i \in DOMAIN seq}

\* approximate::soft_greedy_action: the pairs <<index, branch>> it can return
\* when rand::random::<f64>() yields draw; the empty set when the remainder by
\* the length of an empty Vec panics. value_of[a] is w . x(state, actions[a]).
sg_soft_greedy_action(value_of, action_indices, exploration_fraction, draw) ==
    IF RLe(draw, exploration_fraction)
    THEN {<<a, "explore">> : a \in Range(action_indices)}
    ELSE LET st == sg_best_loop([best_action_indices |-> <<>>,
                                 best_value |-> NEG_INFINITY],
                                action_indices, value_of)
         IN {<<a, "greedy">> : a \in Range(st.best_action_indices)}

\* ----------------------------- approximate: the random walk of the test --
\* The last state of the walk (99 in the test)
MaxWalkState == 2

\* vec![A::Left, A::Right], indexed from 0
sg_actions == [i \in 0..1 |-> IF i = 0 THEN "Left" ELSE "Right"]

\* start_state(): rand::random::<usize>() % 100
sg_start_state == 0..MaxWalkState

\* state_action_features: the position alone, as in the test, or the position
\* and an indicator of the action
SGFeatureKinds == {"position", "position_action"}

sg_state_action_features(kind, s, a) ==
    IF kind = "position" THEN <<R(s, 1)>>
    ELSE <<R(s, 1), IF a = "Right" THEN One ELSE Zero>>

\* is_action_possible
sg_is_action_possible(s, a) == IF a = "Left" THEN s > 0 ELSE TRUE

\* Faulty variant: the indices of all actions, possible or not
sg_all_action_indices(s) ==
    <<0, 1>>

\* (0..actions.len()).filter(|i| is_action_possible(&state, &actions[*i]))
sg_possible_action_indices(s) ==
    IF sg_is_action_possible(s, sg_actions[0]) THEN <<0, 1>> ELSE <<1>>

\* next_state: none, successor and reward; assert!(*s > 0) fails for Left in 0
sg_next_state(s, a) ==
    IF a = "Left"
    THEN IF s > 0
         THEN [panic |-> FALSE, is_none |-> FALSE, state |-> s - 1, reward |-> R(-1, 1)]
         ELSE [panic |-> TRUE, is_none |-> TRUE, state |-> s, reward |-> Zero]
    ELSE IF s >= MaxWalkState
         THEN [panic |-> FALSE, is_none |-> TRUE, state |-> s, reward |-> Zero]
         ELSE [panic |-> FALSE, is_none |-> FALSE, state |-> s + 1, reward |-> R(-1, 1)]

\* -------------------------------------------- approximate: the inputs --
\* Passes of the episode loop explored, over all episodes
MaxSGSteps == 6

\* Largest value of `iterations`
MaxSGIterations == 2

SGDiscounts == {One, R(1, 2)}
SGExplorationFractions == {Zero, R(1, 2)}
SGAlphas == {R(1, 2)}

\* Values rand::random::<f64>() yields
SGDraws == {Zero, R(3, 4)}

\* ------------------------------------- approximate: the state machine --
NoState == -1

NoSGStep == [state |-> NoState, action_index |-> 0, branch |-> "none",
             reward |-> Zero, is_none |-> TRUE, w |-> <<>>]

\* w . x(state, actions[a]) for every action index a
sg_values(kind, w, state) ==
    [a \in DOMAIN sg_actions |->
        dot(w, sg_state_action_features(kind, state, sg_actions[a]))]

\* state_feature_count: the feature length of a start state
sg_state_feature_count(kind) ==
    LET start_state == CHOOSE s \in sg_start_state : TRUE
        action == sg_actions[Head(sg_possible_action_indices(start_state))]
    IN Len(sg_state_action_features(kind, start_state, action))

SGStart ==
    /\ sg_kind \in SGFeatureKinds
    /\ sg_discount \in SGDiscounts
    /\ sg_exploration_fraction \in SGExplorationFractions
    /\ sg_alpha \in SGAlphas
    /\ sg_iterations \in 0..MaxSGIterations
    /\ sg_w = DVector_repeat_zero(sg_state_feature_count(sg_kind))
    /\ sg_state = NoState
    /\ sg_action_index = 0
    /\ sg_features = <<>>
    /\ sg_branch = "none"
    /\ sg_done = 0
    /\ sg_pc = "outer"
    /\ sg_last = NoSGStep
    /\ sg_steps = 0

SGIdle ==
    /\ sg_kind = "position"
    /\ sg_discount = One
    /\ sg_exploration_fraction = Zero
    /\ sg_alpha = One
    /\ sg_iterations = 0
    /\ sg_w = <<>>
    /\ sg_state = NoState
    /\ sg_action_index = 0
    /\ sg_features = <<>>
    /\ sg_branch = "none"
    /\ sg_done = 0
    /\ sg_pc = "idle"
    /\ sg_last = NoSGStep
    /\ sg_steps = 0

\* for _ in 0..iterations { state = start_state(); action_index =
\* soft_greedy_action(...); features = x(state, action)
SGStartEpisode ==
    /\ sg_pc = "outer"
    /\ sg_done < sg_iterations
    /\ \E state \in sg_start_state : \E draw \in SGDraws :
       \E choice \in sg_soft_greedy_action(sg_values(sg_kind, sg_w, state),
                         sg_possible_action_indices(state),
                         sg_exploration_fraction, draw) :
          /\ sg_state' = state
          /\ sg_action_index' = choice[1]
          /\ sg_branch' = choice[2]
          /\ sg_features' = sg_state_action_features(sg_kind, state,
                                                     sg_actions[choice[1]])
    /\ sg_pc' = "episode"
    /\ UNCHANGED <<sg_kind, sg_discount, sg_exploration_fraction, sg_alpha,
                   sg_iterations, sg_w, sg_done, sg_last, sg_steps>>
    /\ UNCHANGED not_sg_vars

\* A pass of the episode loop in which next_state returns a successor
SGStep ==
    /\ sg_pc = "episode"
    /\ sg_steps < MaxSGSteps
    /\ LET nr == sg_next_state(sg_state, sg_actions[sg_action_index])
           prev_action_value == dot(sg_w, sg_features)
       IN
       /\ ~nr.is_none
       /\ \E draw \in SGDraws :
          \E choice \in sg_soft_greedy_action(sg_values(sg_kind, sg_w, nr.state),
                            sg_possible_action_indices(nr.state),
                            sg_exploration_fraction, draw) :
             LET next_features == sg_state_action_features(sg_kind, nr.state,
                                                           sg_actions[choice[1]])
                 sg_expected_returns ==
                   RAdd(nr.reward, RMul(sg_discount, dot(sg_w, next_features)))
             IN /\ sg_w' = sg_update(sg_w, sg_alpha, sg_expected_returns,
                                     prev_action_value, sg_features)
                /\ sg_state' = nr.state
                /\ sg_features' = next_features
                /\ sg_action_index' = choice[1]
                /\ sg_branch' = choice[2]
       /\ sg_last' = [state |-> sg_state, action_index |-> sg_action_index,
                      branch |-> sg_branch, reward |-> nr.reward, is_none |-> FALSE, w |-> sg_w]
    /\ sg_steps' = sg_steps + 1
    /\ UNCHANGED <<sg_kind, sg_discount, sg_exploration_fraction, sg_alpha,
                   sg_iterations, sg_done, sg_pc>>
    /\ UNCHANGED not_sg_vars

\* The pass of the episode loop in which next_state returns no successor, or
\* in which its assertion fails
SGFinalStep ==
    /\ sg_pc = "episode"
    /\ sg_steps < MaxSGSteps
    /\ LET nr == sg_next_state(sg_state, sg_actions[sg_action_index])
           prev_action_value == dot(sg_w, sg_features)
       IN
       /\ nr.is_none
       /\ IF nr.panic
          THEN /\ sg_pc' = "panic"
               /\ UNCHANGED <<sg_w, sg_done>>
          ELSE /\ sg_w' = sg_update(sg_w, sg_alpha, nr.reward,
                                    prev_action_value, sg_features)
               /\ sg_done' = sg_done + 1
               /\ sg_pc' = "outer"
       /\ sg_last' = [state |-> sg_state, action_index |-> sg_action_index,
                      branch |-> sg_branch, reward |-> nr.reward, is_none |-> TRUE, w |-> sg_w]
    /\ sg_steps' = sg_steps + 1
    /\ UNCHANGED <<sg_kind, sg_discount, sg_exploration_fraction, sg_alpha,
                   sg_iterations, sg_state, sg_action_index, sg_features,
                   sg_branch>>
    /\ UNCHANGED not_sg_vars

\* The outer loop is over: w is returned
SGReturn ==
    /\ sg_pc = "outer"
    /\ sg_done = sg_iterations
    /\ sg_pc' = "returned"
    /\ UNCHANGED <<sg_kind, sg_discount, sg_exploration_fraction, sg_alpha,
                   sg_iterations, sg_w, sg_state, sg_action_index, sg_features,
                   sg_branch, sg_done, sg_last, sg_steps>>
    /\ UNCHANGED not_sg_vars

\* ------------------------- solver/monte_carlo.rs: ValueEstimate alone --
\* Calls of update explored on one estimate
MaxVEUpdates == 4

\* Values passed to update
VEReturns == {R(-1, 1), Zero, R(1, 2), One, R(3, 1)}

VEStart ==
    /\ ve_estimate = ValueEstimateDefault
    /\ ve_returns = <<>>
    /\ ve_pc = "running"

VEIdle ==
    /\ ve_estimate = ValueEstimateDefault
    /\ ve_returns = <<>>
    /\ ve_pc = "idle"

\* estimate.update(value)
VEUpdate ==
    /\ ve_pc = "running"
    /\ Len(ve_returns) < MaxVEUpdates
    /\ \E value \in VEReturns :
        /\ ve_estimate' = ValueEstimate_update(ve_estimate, value)
        /\ ve_returns' = Append(ve_returns, value)
    /\ UNCHANGED ve_pc
    /\ UNCHANGED not_ve_vars

\* -------------------------------------------------- blackjack/mod.rs --
Ace == [kind |-> "Ace", v |-> 0]
Face == [kind |-> "Face", v |-> 0]
Value(v) == [kind |-> "Value", v |-> v]

\* Hand::default()
HandDefault == [value |-> 0, usable_ace |-> FALSE]

\* The match of add_card
add_card_match(hand, card) ==
    IF card.kind = "Ace"
    THEN IF ~hand.usable_ace /\ hand.value <= 10
         THEN [value |-> hand.value + 11, usable_ace |-> TRUE]
         ELSE [value |-> hand.value + 1, usable_ace |-> hand.usable_ace]
    ELSE IF card.kind = "Value"
    THEN [value |-> hand.value + card.v, usable_ace |-> hand.usable_ace]
    ELSE [value |-> hand.value + 10, usable_ace |-> hand.usable_ace]

\* Faulty variant: a usable ace is never turned back into 1
Hand_add_card_sticky_ace(self, card) ==
    add_card_match(self, card)

\* Hand::add_card
Hand_add_card(self, card) ==
    LET hand == add_card_match(self, card)
    IN IF hand.value > 21 /\ hand.usable_ace
       THEN [value |-> hand.value - 10, usable_ace |-> FALSE]
       ELSE hand

\* `for c in cards`
RECURSIVE from_cards_loop(_, _)
from_cards_loop(hand, cards) ==
    IF cards = <<>> THEN hand
    ELSE from_cards_loop(Hand_add_card(hand, Head(cards)), Tail(cards))

\* Hand::from_cards
Hand_from_cards(cards) == from_cards_loop(HandDefault, cards)

\* random_card, for r = rand::random::<u32>() % 13 + 1
random_card(r) ==
    IF r = 1 THEN Ace
    ELSE IF r <= 10 THEN Value(r)
    ELSE Face

\* The cards random_card can return
RandomCards == {random_card(r) : r \in 1..13}

\* start_state, for the three cards drawn
blackjack_start_state(dealer, c1, c2) ==
    [dealer |-> dealer,
     player |-> Hand_add_card(Hand_add_card(HandDefault, c1), c2)]

\* Faulty variant: a player over 21 stays in the game
next_state_hit_no_bust(state, card) ==
    [is_none |-> FALSE,
     state |-> [dealer |-> state.dealer,
                player |-> Hand_add_card(state.player, card)],
     reward |-> Zero]

\* next_state for Hit, for the card drawn
next_state_hit(state, card) ==
    LET player == Hand_add_card(state.player, card)
    IN IF player.value > 21
       THEN [is_none |-> TRUE, state |-> state, reward |-> R(-1, 1)]
       ELSE [is_none |-> FALSE,
             state |-> [dealer |-> state.dealer, player |-> player],
             reward |-> Zero]

\* The reward of next_state for Stick, once the dealer has stopped drawing
next_state_stick_reward(state, dealer) ==
    IF dealer.value > 21 THEN One
    ELSE IF state.player.value > dealer.value THEN One
    ELSE IF state.player.value < dealer.value THEN R(-1, 1)
    ELSE Zero

\* ----------------------------------------- blackjack: the state machine --
\* Longest vector given to from_cards
MaxCards == 4

BJNoState == [dealer |-> Ace, player |-> HandDefault]

BJRest(pc) ==
    /\ bj_cards = <<>>
    /\ bj_hand = HandDefault
    /\ bj_state = BJNoState
    /\ bj_dealer = HandDefault
    /\ bj_hits = 0
    /\ bj_draws = 0
    /\ bj_reward = Zero
    /\ bj_pc = pc

\* A test about to build hands
BJHandStart == BJRest("from_cards")

\* An episode about to start
BJStart == BJRest("start")

BJIdle == BJRest("idle")

\* Hand::from_cards on a vector one card longer
BJFromCards ==
    /\ bj_pc = "from_cards"
    /\ Len(bj_cards) < MaxCards
    /\ \E card \in RandomCards :
        /\ bj_cards' = Append(bj_cards, card)
        /\ bj_hand' = Hand_from_cards(Append(bj_cards, card))
    /\ UNCHANGED <<bj_state, bj_dealer, bj_hits, bj_draws, bj_reward, bj_pc>>
    /\ UNCHANGED not_bj_vars

\* start_state()
BJStartState ==
    /\ bj_pc = "start"
    /\ \E dealer, c1, c2 \in RandomCards :
        bj_state' = blackjack_start_state(dealer, c1, c2)
    /\ bj_pc' = "episode"
    /\ UNCHANGED <<bj_cards, bj_hand, bj_dealer, bj_hits, bj_draws, bj_reward>>
    /\ UNCHANGED not_bj_vars

\* next_state(state, Hit)
BJHit ==
    /\ bj_pc = "episode"
    /\ \E card \in RandomCards :
        LET nr == next_state_hit(bj_state, card)
        IN /\ bj_state' = nr.state
           /\ bj_reward' = nr.reward
           /\ bj_pc' = IF nr.is_none THEN "done" ELSE "episode"
    /\ bj_hits' = bj_hits + 1
    /\ UNCHANGED <<bj_cards, bj_hand, bj_dealer, bj_draws>>
    /\ UNCHANGED not_bj_vars

\* next_state(state, Stick): the dealer's hand before the loop
BJStick ==
    /\ bj_pc = "episode"
    /\ bj_dealer' = Hand_add_card(HandDefault, bj_state.dealer)
    /\ bj_pc' = "dealer"
    /\ UNCHANGED <<bj_cards, bj_hand, bj_state, bj_hits, bj_draws, bj_reward>>
    /\ UNCHANGED not_bj_vars

\* A pass of `while dealer.value < 17`
BJDealerDraw ==
    /\ bj_pc = "dealer"
    /\ bj_dealer.value < 17
    /\ \E card \in RandomCards : bj_dealer' = Hand_add_card(bj_dealer, card)
    /\ bj_draws' = bj_draws + 1
    /\ UNCHANGED <<bj_cards, bj_hand, bj_state, bj_hits, bj_reward, bj_pc>>
    /\ UNCHANGED not_bj_vars

\* The loop is over: next_state returns no successor and the reward
BJStickReturn ==
    /\ bj_pc = "dealer"
    /\ ~(bj_dealer.value < 17)
    /\ bj_reward' = next_state_stick_reward(bj_state, bj_dealer)
    /\ bj_pc' = "done"
    /\ UNCHANGED <<bj_cards, bj_hand, bj_state, bj_dealer, bj_hits, bj_draws>>
    /\ UNCHANGED not_bj_vars

\* ------------------------------------ solver/mod.rs: choose_random_key --
(***************************************************************************)
(* choose_random_key adds the weights in one order and subtracts them in   *)
(* another, so the rounding of f64 decides whether its loop can run out of *)
(* keys.  Here an f64 is the pair <<a, b>> that stands for a + b * 2^-53,  *)
(* a being a multiple of 1/4 between 0 and 8 and b a rational of absolute  *)
(* value below 2^8: on such values the sums, differences and products      *)
(* below are those of IEEE 754 binary64 with rounding to nearest, ties to  *)
(* even, bit for bit.                                                      *)
(***************************************************************************)
F64(a, b) == <<a, b>>

F64Zero == F64(Zero, Zero)

\* 2^k as a rational
Pow2(k) == IF k >= 0 THEN R(2^k, 1) ELSE R(1, 2^(-k))

\* The k with 2^k <= a < 2^(k+1), for a in [1/4, 16)
Binade(a) == CHOOSE k \in -2..3 : RLe(Pow2(k), a) /\ RLt(a, Pow2(k + 1))

\* The largest integer that is at most q
RFloor(q) == q[1] \div q[2]

\* The sign of a rational
RSign(x) == IF x[1] > 0 THEN 1 ELSE IF x[1] < 0 THEN -1 ELSE 0

\* The spacing of the f64 values around a + b * 2^-53 (+ an amount of sign
\* sticky, smaller than any of these), in units of 2^-53: 2^(k+1) in
\* [2^k, 2^(k+1)), and half of that just below a power of two
f64_spacing(a, b, sticky) ==
    LET k == Binade(a)
    IN IF a = Pow2(k) /\ (RSign(b) < 0 \/ (RSign(b) = 0 /\ sticky < 0))
       THEN Pow2(k) ELSE Pow2(k + 1)

\* Rounding to nearest, ties to even, of a + b * 2^-53 (+ sticky)
f64_round(a, b, sticky) ==
    IF a = Zero THEN F64(a, b)
    ELSE LET g == f64_spacing(a, b, sticky)
             q == RMul(b, <<g[2], g[1]>>)
             n == RFloor(q)
             frac == RSub(q, R(n, 1))
             half == R(1, 2)
             up == \/ RLt(half, frac)
                   \/ frac = half /\ sticky > 0
                   \/ frac = half /\ sticky = 0 /\ n % 2 # 0
         IN F64(a, RMul(R(IF up THEN n + 1 ELSE n, 1), g))

\* f64 + f64
f64_add(x, y) == f64_round(RAdd(x[1], y[1]), RAdd(x[2], y[2]), 0)

\* f64 - f64
f64_sub(x, y) == f64_round(RSub(x[1], y[1]), RSub(x[2], y[2]), 0)

\* f64 * f64, one factor at least being 0 or having a # 0
f64_mul(x, y) ==
    IF x = F64Zero \/ y = F64Zero THEN F64Zero
    ELSE f64_round(RMul(x[1], y[1]),
                   RAdd(RMul(x[1], y[2]), RMul(x[2], y[1])),
                   RSign(RMul(x[2], y[2])))

\* f64 <= f64
f64_le(x, y) == RLt(x[1], y[1]) \/ (x[1] = y[1] /\ RLe(x[2], y[2]))

\* map.iter().map(|(k, v)| f(v)).sum(), the keys coming in the given order
RECURSIVE crk_sum(_, _, _)
crk_sum(map, order, acc) ==
    IF order = <<>> THEN acc
    ELSE crk_sum(map, Tail(order), f64_add(acc, map[Head(order)]))

\* keys.sort()
RECURSIVE crk_sorted_keys(_)
crk_sorted_keys(keys) ==
    IF keys = {} THEN <<>>
    ELSE LET least == CHOOSE k \in keys : \A j \in keys : k <= j
         IN <<least>> \o crk_sorted_keys(keys \ {least})

NoKey == 0

\* `for k in keys.iter()`, and the panic after it
RECURSIVE crk_loop(_, _, _)
crk_loop(map, keys, remaining_probability) ==
    IF keys = <<>> THEN [panic |-> TRUE, key |-> NoKey]
    ELSE LET probability == map[Head(keys)]
         IN IF f64_le(remaining_probability, probability)
            THEN [panic |-> FALSE, key |-> Head(keys)]
            ELSE crk_loop(map, Tail(keys),
                          f64_sub(remaining_probability, probability))

\* choose_random_key, for the value of rand::random::<f64>() and the order of
\* map.iter()
choose_random_key(map, draw, order) ==
    LET total_probablity == crk_sum(map, order, F64Zero)
    IN crk_loop(map, crk_sorted_keys(DOMAIN map), f64_mul(draw, total_probablity))

\* -------------------------------------- choose_random_key: the inputs --
\* Most keys in a map
MaxCRKKeys == 3

\* Weights: 0, 1/2, 1 and 3 * 2^-53
CRKWeights == {F64Zero, F64(R(1, 2), Zero), F64(One, Zero), F64(Zero, R(3, 1))}

\* rand::random::<f64>(): 0, 1/2 and the largest value, 1 - 2^-53
CRKDraws == {F64Zero, F64(R(1, 2), Zero), F64(One, R(-1, 1))}

\* The maps with keys in 1..MaxCRKKeys; a map without any weight 1/2 or 1
\* has a total outside the values described above unless it is 0
CRKMaps ==
    {m \in UNION {[keys -> CRKWeights] : keys \in (SUBSET (1..MaxCRKKeys)) \ {{}}} :
        \/ \E k \in DOMAIN m : m[k][1] # Zero
        \/ \A k \in DOMAIN m : m[k] = F64Zero}

NoCRKResult == [panic |-> FALSE, key |-> NoKey]

CRKStart ==
    /\ crk_map \in CRKMaps
    /\ crk_draw = F64Zero
    /\ crk_order = <<>>
    /\ crk_result = NoCRKResult
    /\ crk_pc = "start"

CRKIdle ==
    /\ crk_map = <<>>
    /\ crk_draw = F64Zero
    /\ crk_order = <<>>
    /\ crk_result = NoCRKResult
    /\ crk_pc = "idle"

\* choose_random_key(&map, f)
CRKChoose ==
    /\ crk_pc = "start"
    /\ \E draw \in CRKDraws : \E order \in IterationOrders(DOMAIN crk_map) :
        /\ crk_draw' = draw
        /\ crk_order' = order
        /\ crk_result' = choose_random_key(crk_map, draw, order)
    /\ crk_pc' = "chosen"
    /\ UNCHANGED crk_map
    /\ UNCHANGED not_crk_vars

\* ------------------------------------------------- car_rental/mod.rs --
MAX_MOVES == 5
RENT_REWARD == R(10, 1)
TRANSFER_PRICE == R(2, 1)
RENTALS_LAMBDA1 == 3
RENTALS_LAMBDA2 == 4
RETURNS_LAMBDA1 == 3
RETURNS_LAMBDA2 == 2

\* State::new
CarState(l1, l2) == [l1 |-> l1, l2 |-> l2]

\* e^-lambda is not rational: the probability of n events, or of n and more
\* when n is the largest count possible, is kept as the call that computes it
poisson(n, largest, lambda) ==
    IF n = largest THEN <<"poisson_tail", lambda, n>>
    ELSE <<"poisson_prob", lambda, n>>

\* The body of the innermost loop of new_action_result: the destination, the
\* reward and the four factors of the probability of one path
car_path(max_cars, l1_day, l2_day, transfer, l1_out, l1_in, l2_out, l2_in) ==
    [dest_state_id |-> CarState(l1_day - l1_out + l1_in, l2_day - l2_out + l2_in),
     reward |-> RSub(RMul(R(l1_out + l2_out, 1), RENT_REWARD),
                     RMul(R(IAbs(transfer), 1), TRANSFER_PRICE)),
     probability |-> <<poisson(l1_out, l1_day, RENTALS_LAMBDA1),
                       poisson(l1_in, max_cars - l1_day + l1_out, RETURNS_LAMBDA1),
                       poisson(l2_out, l2_day, RENTALS_LAMBDA2),
                       poisson(l2_in, max_cars - l2_day + l2_out, RETURNS_LAMBDA2)>>]

\* The four nested loops of new_action_result
car_paths(max_cars, l1_day, l2_day, transfer) ==
    {car_path(max_cars, l1_day, l2_day, transfer, l1_out, l1_in, l2_out, l2_in) :
        <<l1_out, l1_in, l2_out, l2_in>> \in
            {p \in (0..l1_day) \X (0..max_cars) \X (0..l2_day) \X (0..max_cars) :
                /\ p[2] <= max_cars - l1_day + p[1]
                /\ p[4] <= max_cars - l2_day + p[3]}}

\* new_action_result: every destination with the paths that lead to it; its
\* probability is the sum of theirs and its reward their mean weighted by
\* probability
new_action_result(max_cars, l1_day, l2_day, transfer) ==
    LET paths == car_paths(max_cars, l1_day, l2_day, transfer)
    IN [dest_states |->
           [dest \in {p.dest_state_id : p \in paths} |->
               {[reward |-> p.reward, probability |-> p.probability] :
                   p \in {q \in paths : q.dest_state_id = dest}}]]

\* min_transfers and max_transfers of a state
car_min_transfers(max_cars, l1_start, l2_start) ==
    -(IMin(IMin(l2_start, MAX_MOVES), max_cars - l1_start))

car_max_transfers(max_cars, l1_start, l2_start) ==
    IMin(IMin(l1_start, MAX_MOVES), max_cars - l2_start)

\* ---------------------------------------- car rental: the state machine --
\* Largest max_cars
MaxCars == 4

CarStart ==
    /\ car_max_cars \in 0..MaxCars
    /\ car_states = EmptyMap
    /\ car_actions_cache = EmptyMap
    /\ car_state_actions = EmptyMap
    /\ car_l1_start = 0
    /\ car_l2_start = 0
    /\ car_transfer = car_min_transfers(car_max_cars, 0, 0)
    /\ car_pc = "transfers"

CarIdle ==
    /\ car_max_cars = 0
    /\ car_states = EmptyMap
    /\ car_actions_cache = EmptyMap
    /\ car_state_actions = EmptyMap
    /\ car_l1_start = 0
    /\ car_l2_start = 0
    /\ car_transfer = 0
    /\ car_pc = "idle"

\* A pass of `for transfer in min_transfers..(max_transfers + 1)`
CarTransfer ==
    /\ car_pc = "transfers"
    /\ car_transfer <= car_max_transfers(car_max_cars, car_l1_start, car_l2_start)
    /\ LET l1_day == car_l1_start - car_transfer
           l2_day == car_l2_start + car_transfer
           key == <<l1_day, l2_day>>
           cache == IF key \in DOMAIN car_actions_cache
                    THEN car_actions_cache
                    ELSE MapInsert(car_actions_cache, key,
                             new_action_result(car_max_cars, l1_day, l2_day,
                                               car_transfer))
       IN /\ car_actions_cache' = cache
          /\ car_state_actions' = MapInsert(car_state_actions, car_transfer, cache[key])
    /\ car_transfer' = car_transfer + 1
    /\ UNCHANGED <<car_max_cars, car_states, car_l1_start, car_l2_start, car_pc>>
    /\ UNCHANGED not_car_vars

\* states.insert(state, state_actions), and the next state of the two outer
\* loops, if any
CarInsertState ==
    /\ car_pc = "transfers"
    /\ car_transfer > car_max_transfers(car_max_cars, car_l1_start, car_l2_start)
    /\ car_states' = MapInsert(car_states, CarState(car_l1_start, car_l2_start),
                               [actions |-> car_state_actions])
    /\ car_state_actions' = EmptyMap
    /\ LET l1 == IF car_l2_start < car_max_cars THEN car_l1_start
                 ELSE car_l1_start + 1
           l2 == IF car_l2_start < car_max_cars THEN car_l2_start + 1 ELSE 0
       IN IF l1 > car_max_cars
          THEN /\ car_pc' = "built"
               /\ UNCHANGED <<car_l1_start, car_l2_start, car_transfer>>
          ELSE /\ car_l1_start' = l1
               /\ car_l2_start' = l2
               /\ car_transfer' = car_min_transfers(car_max_cars, l1, l2)
               /\ UNCHANGED car_pc
    /\ UNCHANGED <<car_max_cars, car_actions_cache>>
    /\ UNCHANGED not_car_vars

\* Env { states: states }
CarReturn ==
    /\ car_pc = "built"
    /\ car_pc' = "returned"
    /\ UNCHANGED <<car_max_cars, car_states, car_actions_cache, car_state_actions,
                   car_l1_start, car_l2_start, car_transfer>>
    /\ UNCHANGED not_car_vars

\* ------------------------------------------------------ specifications --
DPInit == DPStart /\ CoinIdle /\ MCIdle /\ TDIdle /\ FPIdle /\ TileIdle /\ SGIdle /\ VEIdle /\ BJIdle /\ CRKIdle /\ CarIdle

DPNext ==
    \/ EvaluatePolicy
    \/ IterateStateValue
    \/ MakeGreedyPolicy
    \/ MakeUniformPolicy

\* The dynamic-programming solver driven by a caller's loop
Spec == DPInit /\ [][DPNext]_vars

CoinInit == CoinStart /\ DPIdle /\ MCIdle /\ TDIdle /\ FPIdle /\ TileIdle /\ SGIdle /\ VEIdle /\ BJIdle /\ CRKIdle /\ CarIdle

CoinNext ==
    \/ CoinAddState
    \/ CoinAddFinalStates

\* new_coin_env building its Env
SpecCoin == CoinInit /\ [][CoinNext]_vars

MCInit == MCStart /\ DPIdle /\ CoinIdle /\ TDIdle /\ FPIdle /\ TileIdle /\ SGIdle /\ VEIdle /\ BJIdle /\ CRKIdle /\ CarIdle

MCNext ==
    \/ MCStartEpisode
    \/ MCStep
    \/ MCFinalStep
    \/ MCReturn

\* monte_carlo::evaluate_policy
SpecMC == MCInit /\ [][MCNext]_vars

TDInit == TDStart /\ DPIdle /\ CoinIdle /\ MCIdle /\ FPIdle /\ TileIdle /\ SGIdle /\ VEIdle /\ BJIdle /\ CRKIdle /\ CarIdle

TDNext ==
    \/ TDStartEpisode
    \/ TDStep
    \/ TDFinalStep
    \/ TDReturn

\* find_action_values_expected_sarsa on the random walk of its test
SpecTD == TDInit /\ [][TDNext]_vars

FPInit == FPStart /\ DPIdle /\ CoinIdle /\ MCIdle /\ TDIdle /\ TileIdle /\ SGIdle /\ VEIdle /\ BJIdle /\ CRKIdle /\ CarIdle

FPNext ==
    \/ FPStartEpisode
    \/ FPStep
    \/ FPFinalStep
    \/ FPReturn

\* monte_carlo::find_policy
SpecFP == FPInit /\ [][FPNext]_vars

\* Each episodic solver called once on an environment whose episodes are bounded
EpisodicInit ==
    \/ MCStart /\ DPIdle /\ CoinIdle /\ TDIdle /\ FPIdle /\ TileIdle /\ SGIdle /\ VEIdle /\ BJIdle /\ CRKIdle /\ CarIdle
    \/ FPStart /\ DPIdle /\ CoinIdle /\ MCIdle /\ TDIdle /\ TileIdle /\ SGIdle /\ VEIdle /\ BJIdle /\ CRKIdle /\ CarIdle
    \/ TDStartDescent /\ DPIdle /\ CoinIdle /\ MCIdle /\ FPIdle /\ TileIdle /\ SGIdle /\ VEIdle /\ BJIdle /\ CRKIdle /\ CarIdle

EpisodicNext ==
    \/ MCStartEpisode
    \/ MCStep
    \/ MCFinalStep
    \/ MCReturn
    \/ FPStartEpisode
    \/ FPStep
    \/ FPFinalStep
    \/ FPReturn
    \/ TDStartEpisode
    \/ TDStep
    \/ TDFinalStep
    \/ TDReturn

\* What a step of evaluate_policy does to its position: the outer loop starts
\* an episode or ends, a pass of the episode loop pushes a step or breaks
MCProgress ==
    \/ mc_pc = "outer" /\ mc_done < mc_iterations
       /\ mc_pc' = "episode" /\ mc_episode' = <<>>
    \/ mc_pc = "outer" /\ mc_done = mc_iterations
       /\ mc_pc' = "returned" /\ mc_episode' = mc_episode
    \/ mc_pc = "episode" /\ mc_pc' = "outer" /\ mc_episode' = <<>>
    \/ mc_pc = "episode" /\ mc_pc' = "episode"
       /\ mc_episode' \in {Append(mc_episode, <<mc_state, a, r>>) :
                               a \in MCActions, r \in MCRewards}

\* The same for find_policy
FPProgress ==
    \/ fp_pc = "outer" /\ fp_done < fp_iterations
       /\ fp_pc' = "episode" /\ fp_episode' = <<>>
    \/ fp_pc = "outer" /\ fp_done = fp_iterations
       /\ fp_pc' = "returned" /\ fp_episode' = fp_episode
    \/ fp_pc = "episode" /\ fp_pc' = "outer" /\ fp_episode' = <<>>
    \/ fp_pc = "episode" /\ fp_pc' = "episode"
       /\ fp_episode' \in {Append(fp_episode, <<fp_state, a, r>>) :
                               a \in MCActions, r \in MCRewards}

\* The same for find_action_values_expected_sarsa
TDProgress ==
    \/ td_pc = "outer" /\ td_done < td_iterations
       /\ td_pc' = "episode" /\ td_steps' = td_steps
    \/ td_pc = "outer" /\ td_done = td_iterations
       /\ td_pc' = "returned" /\ td_steps' = td_steps
    \/ td_pc = "episode" /\ td_steps < MaxTDSteps
       /\ td_pc' \in {"episode", "outer"} /\ td_steps' = td_steps + 1

\* The solvers are sequential code that runs on: a solver whose position can
\* advance eventually advances
SpecEpisodic ==
    /\ EpisodicInit /\ [][EpisodicNext]_vars
    /\ WF_<<mc_pc, mc_episode>>(MCProgress)
    /\ WF_<<fp_pc, fp_episode>>(FPProgress)
    /\ WF_<<td_pc, td_steps>>(TDProgress)

TileInit == TileStart /\ DPIdle /\ CoinIdle /\ MCIdle /\ TDIdle /\ FPIdle /\ SGIdle /\ VEIdle /\ BJIdle /\ CRKIdle /\ CarIdle

TileNext ==
    \/ TileFromDimensions
    \/ TileGetTiles

\* A TilingSet built from dimensions and queried for points
SpecTile == TileInit /\ [][TileNext]_vars

SGInit ==
    SGStart /\ DPIdle /\ CoinIdle /\ MCIdle /\ TDIdle /\ FPIdle /\ TileIdle /\ VEIdle /\ BJIdle /\ CRKIdle /\ CarIdle

SGNext ==
    \/ SGStartEpisode
    \/ SGStep
    \/ SGFinalStep
    \/ SGReturn

\* find_action_values_episodic_semi_gradient_sarsa on the walk of its test
SpecSG == SGInit /\ [][SGNext]_vars

VEInit ==
    VEStart /\ DPIdle /\ CoinIdle /\ MCIdle /\ TDIdle /\ FPIdle /\ TileIdle /\ SGIdle /\ BJIdle /\ CRKIdle /\ CarIdle

VENext ==
    \/ VEUpdate

\* ValueEstimate::update called repeatedly on a default estimate
SpecVE == VEInit /\ [][VENext]_vars

HandInit ==
    BJHandStart /\ DPIdle /\ CoinIdle /\ MCIdle /\ TDIdle /\ FPIdle /\ TileIdle /\ SGIdle /\ VEIdle /\ CRKIdle /\ CarIdle

HandNext ==
    \/ BJFromCards

\* Hand::from_cards on every vector of at most MaxCards cards
SpecHand == HandInit /\ [][HandNext]_vars

BJInit ==
    BJStart /\ DPIdle /\ CoinIdle /\ MCIdle /\ TDIdle /\ FPIdle /\ TileIdle /\ SGIdle /\ VEIdle /\ CRKIdle /\ CarIdle

BJNext ==
    \/ BJStartState
    \/ BJHit
    \/ BJStick
    \/ BJDealerDraw
    \/ BJStickReturn

\* One blackjack episode under any policy and any cards
SpecBlackjack == BJInit /\ [][BJNext]_vars

CRKInit ==
    CRKStart /\ DPIdle /\ CoinIdle /\ MCIdle /\ TDIdle /\ FPIdle /\ TileIdle /\ SGIdle /\ VEIdle /\ BJIdle /\ CarIdle

CRKNext ==
    \/ CRKChoose

\* One call of choose_random_key
SpecCRK == CRKInit /\ [][CRKNext]_vars

CarInit ==
    CarStart /\ DPIdle /\ CoinIdle /\ MCIdle /\ TDIdle /\ FPIdle /\ TileIdle /\ SGIdle /\ VEIdle /\ BJIdle /\ CRKIdle

CarNext ==
    \/ CarTransfer
    \/ CarInsertState
    \/ CarReturn

\* new_car_rental_env
SpecCar == CarInit /\ [][CarNext]_vars

\* ----------------------------------------------------------- DP: claims --
\* pi(a|s), 0 for an action missing from the policy entry
Pi(s, a) ==
    IF a \in DOMAIN policy.states[s].actions
    THEN policy.states[s].actions[a] ELSE Zero

\* Expected immediate reward of action a in state s
ExpectedReward(s, a) ==
    LET dests == env.states[s].actions[a].dest_states IN
    RSum([d \in DOMAIN dests |-> RMul(dests[d].probability, dests[d].reward)])

\* Expected value, under table v, of the state reached by action a in state s
ExpectedSuccessor(v, s, a) ==
    LET dests == env.states[s].actions[a].dest_states IN
    RSum([d \in DOMAIN dests |->
            IF d \in DOMAIN v THEN RMul(dests[d].probability, v[d]) ELSE Zero])

\* q(s,a) = sum_s' P(s'|s,a) * (R(s,a,s') + discount * v(s'))
Q(v, s, a) == RAdd(ExpectedReward(s, a), RMul(discount, ExpectedSuccessor(v, s, a)))

\* sum_a pi(a|s) * q(s,a)
BellmanExpectation(v, s) ==
    RSum([a \in DOMAIN env.states[s].actions |-> RMul(Pi(s, a), Q(v, s, a))])

\* C1: after evaluate_policy returns, the table holds exactly the states
\* with at least one action, each with the Bellman expectation value
\* computed from the table that was passed in.
C1_BellmanExpectationSweep ==
    dp_op = "evaluate_policy" =>
        /\ DOMAIN state_values = NonTerminal(env)
        /\ \A s \in NonTerminal(env) :
              state_values[s] = BellmanExpectation(prev_state_values, s)

\* A second sweep over a two-state cycle, with an action missing from the
\* policy entry and a final state in env
C1_Witness ==
    /\ dp_op = "evaluate_policy"
    /\ sweeps = 2
    /\ NonTerminal(env) = {0, 1}
    /\ 0 \in DOMAIN env.states[1].actions["a"].dest_states
    /\ DOMAIN policy.states[0].actions = {"a"}
    /\ 1 \in DOMAIN env.states[0].actions["a"].dest_states
    /\ state_values # prev_state_values
    /\ prev_state_values # EmptyMap

\* Largest absolute per-state change between the two latest tables
MaxAbsChange ==
    RFoldMax([s \in NonTerminal(env) |->
                RAbs(RSub(state_values[s], GetOrZero(prev_state_values, s)))])

\* C2: the max_delta returned by iterate_state_value is the largest absolute
\* per-state change.
C2_MaxDeltaIsLargestAbsChange ==
    dp_op = "iterate_state_value" => max_delta = MaxAbsChange

\* C3: after iterate_state_value returns, the table holds exactly the states
\* with at least one action, each with the largest action value computed from
\* the table that was passed in.
C3_BellmanOptimalitySweep ==
    dp_op = "iterate_state_value" =>
        /\ DOMAIN state_values = NonTerminal(env)
        /\ \A s \in NonTerminal(env) :
              /\ \E a \in DOMAIN env.states[s].actions :
                    state_values[s] = Q(prev_state_values, s, a)
              /\ \A a \in DOMAIN env.states[s].actions :
                    RLe(Q(prev_state_values, s, a), state_values[s])

\* A sweep in which the two actions of state 0 have different values and the
\* policy has no entry at all
C3_Witness ==
    /\ dp_op = "iterate_state_value"
    /\ prev_state_values # EmptyMap
    /\ policy.states = EmptyMap
    /\ Q(prev_state_values, 0, "a") # Q(prev_state_values, 0, "b")
    /\ state_values[0] = Q(prev_state_values, 0, "b")
    /\ NonTerminal(env) # DOMAIN env.states

\* Actions of s whose value is within 1e-6 of the best value of s
Tied(v, s) ==
    {a \in DOMAIN env.states[s].actions :
        \A b \in DOMAIN env.states[s].actions :
            LtTolerance(RSub(Q(v, s, b), Q(v, s, a)))}

\* C4: make_greedy_policy gives every non-terminal state exactly the actions
\* within 1e-6 of its best action value, each with probability 1/k; the set
\* is never empty and the probabilities sum to 1.
C4_GreedyPolicy ==
    dp_op = "make_greedy_policy" =>
        /\ DOMAIN policy.states = NonTerminal(env)
        /\ \A s \in NonTerminal(env) :
              LET actions == policy.states[s].actions IN
              /\ DOMAIN actions = Tied(state_values, s)
              /\ DOMAIN actions # {}
              /\ \A a \in DOMAIN actions :
                    actions[a] = R(1, Cardinality(Tied(state_values, s)))
              /\ RSum(actions) = One

\* Two actions whose values differ by less than 1e-6 share the probability
C4_Witness ==
    /\ dp_op = "make_greedy_policy"
    /\ Q(state_values, 0, "a") # Q(state_values, 0, "b")
    /\ DOMAIN policy.states[0].actions = {"a", "b"}
    /\ state_values # EmptyMap

\* C5: evaluate_policy aborts exactly when some state with at least one
\* action has no policy entry; a missing entry for a state without actions
\* does not abort it.
C5_AbortsOnMissingPolicyEntry ==
    /\ dp_op = "evaluate_policy: panic" =>
          \E s \in NonTerminal(env) : s \notin DOMAIN policy.states
    /\ dp_op = "evaluate_policy" => NonTerminal(env) \subseteq DOMAIN policy.states

\* The call aborted although state 0 has an entry: state 1 has none
C5_Witness ==
    /\ dp_op = "evaluate_policy: panic"
    /\ 0 \in DOMAIN policy.states
    /\ 1 \in NonTerminal(env)
    /\ 1 \notin DOMAIN policy.states

\* Some non-terminal state's policy probabilities do not sum to 1
NonUnitPolicy ==
    \E s \in NonTerminal(env) \cap DOMAIN policy.states :
        RSum(policy.states[s].actions) # One

\* C6 (as claimed): evaluate_policy never returns a table for a policy whose
\* probabilities do not sum to 1 at some non-terminal state.
C6_NonUnitPolicyAborts ==
    dp_op = "evaluate_policy" => ~NonUnitPolicy

\* C6 (amended): a call of evaluate_policy with a policy that has an entry for
\* every non-terminal state returns normally even when some entry's
\* probabilities do not sum to 1, and the table is computed from the
\* probabilities as given.
C6_NonUnitPolicyEvaluated ==
    [][ ( /\ dp_op' \in {"evaluate_policy", "evaluate_policy: panic"}
          /\ dp_op' # dp_op \/ sweeps' # sweeps
          /\ NonTerminal(env) \subseteq DOMAIN policy.states
          /\ NonUnitPolicy )
        => ( /\ dp_op' = "evaluate_policy"
             /\ DOMAIN state_values' = NonTerminal(env)
             /\ \A s \in NonTerminal(env) :
                   state_values'[s] = BellmanExpectation(state_values, s) )
      ]_vars

\* A table was returned for a policy whose entry for state 0 sums to 3/2
C6_Witness ==
    /\ dp_op = "evaluate_policy"
    /\ RSum(policy.states[0].actions) = R(3, 2)
    /\ state_values[0] # Zero

\* Table v satisfies the Bellman expectation equation at every non-terminal
\* state
BellmanFixed(v) ==
    \A s \in NonTerminal(env) :
        /\ s \in DOMAIN policy.states
        /\ GetOrZero(v, s) = BellmanExpectation(v, s)

\* Table v holds 0.0 for every state that is not a non-terminal state of env
ZeroOutside(v) ==
    \A s \in DOMAIN v \ NonTerminal(env) : v[s] = Zero

\* A step that is a returning call of evaluate_policy
EvaluatePolicyReturns ==
    /\ dp_op' = "evaluate_policy"
    /\ sweeps' = sweeps + 1

\* C7 (as claimed): from a table satisfying the Bellman expectation equation
\* at every non-terminal state, evaluate_policy returns max_delta = 0 and the
\* same values, and the returned table again satisfies the equation (so
\* feeding it back keeps returning max_delta = 0).
C7_Idempotent ==
    [][ (EvaluatePolicyReturns /\ BellmanFixed(state_values))
        => ( /\ max_delta' = Zero
             /\ \A s \in NonTerminal(env) :
                   state_values'[s] = GetOrZero(state_values, s)
             /\ BellmanFixed(state_values') )
      ]_vars

\* C7 (amended): the same, for a table that also holds 0.0 for every state
\* other than the non-terminal states of env.
C7_IdempotentZeroOutside ==
    [][ ( /\ EvaluatePolicyReturns
          /\ BellmanFixed(state_values)
          /\ ZeroOutside(state_values) )
        => ( /\ max_delta' = Zero
             /\ \A s \in NonTerminal(env) :
                   state_values'[s] = GetOrZero(state_values, s)
             /\ BellmanFixed(state_values')
             /\ ZeroOutside(state_values') )
      ]_vars

\* evaluate_policy was applied twice to a fixed point with non-zero values
\* that depends on the discounted value of a successor
C7_Witness ==
    /\ dp_op = "evaluate_policy"
    /\ sweeps = 2
    /\ BellmanFixed(prev_state_values)
    /\ ZeroOutside(prev_state_values)
    /\ BellmanFixed(state_values)
    /\ max_delta = Zero
    /\ discount # One
    /\ \E s \in NonTerminal(env) :
          /\ state_values[s] # Zero
          /\ ExpectedSuccessor(state_values, s, "a") # Zero

\* --------------------------------------------------------- coin: claims --
\* C8: every ActionResult built by new_coin_env has destination probabilities
\* that sum to 1.
C8_CoinProbabilitiesSumToOne ==
    \A m \in DOMAIN coin_states :
        \A bet \in DOMAIN coin_states[m].actions :
            RSum([d \in DOMAIN coin_states[m].actions[bet].dest_states |->
                    coin_states[m].actions[bet].dest_states[d].probability]) = One

\* ----------------------------------------------------------- MC: claims --
RECURSIVE RPow(_, _)
RPow(x, k) == IF k = 0 THEN One ELSE RMul(x, RPow(x, k - 1))

\* Discounted return of episode ep from its step i on
ReturnFrom(ep, i) ==
    RSum([j \in i..Len(ep) |-> RMul(RPow(mc_discount, j - i), ep[j][3])])

\* The steps of ep at which state s was visited
Visits(ep, s) == {i \in 1..Len(ep) : ep[i][1] = s}

\* The visit of s that a scan from the end of ep meets first
LastVisit(ep, s) == CHOOSE i \in Visits(ep, s) : \A j \in Visits(ep, s) : j <= i

\* The logged episodes in which state s occurred
EpisodesWith(s) == {k \in 1..Len(mc_log) : Visits(mc_log[k], s) # {}}

\* C9: a state has an estimate exactly when it occurred in some episode; its
\* count is the number of episodes in which it occurred, and its average is
\* the mean, over those episodes, of the discounted return from the visit met
\* first when the episode is scanned from its end.
C9_FirstVisitFromTheEnd ==
    \A s \in MCStates :
        /\ s \in DOMAIN mc_state_values <=> EpisodesWith(s) # {}
        /\ s \in DOMAIN mc_state_values =>
              /\ mc_state_values[s].count = Cardinality(EpisodesWith(s))
              /\ RMul(mc_state_values[s].avg, R(mc_state_values[s].count, 1))
                    = RSum([k \in EpisodesWith(s) |->
                              ReturnFrom(mc_log[k], LastVisit(mc_log[k], s))])

\* Two episodes done; the latest visits A twice with different returns from
\* the two visits, and A was also in the first episode
C9_Witness ==
    /\ Len(mc_log) = 2
    /\ Visits(mc_log[1], "A") # {}
    /\ Cardinality(Visits(mc_log[2], "A")) = 2
    /\ ReturnFrom(mc_log[2], 1) # ReturnFrom(mc_log[2], 2)
    /\ mc_state_values["A"].count = 2
    /\ mc_discount # One

\* ----------------------------------------------------------- TD: claims --
HasEntry(q, s, a) == s \in DOMAIN q /\ a \in DOMAIN q[s]

\* C10: a pass of the episode loop taken in state s with action a, reward R
\* and successor n sets Q(s,a) to Q(s,a) + alpha*(R + discount*E - Q(s,a)),
\* where a missing Q(s,a) reads 0.0, E is the expected return of n under the
\* table before the pass, 0.0 when n has no entry, and the discounted term is
\* absent when there is no successor; no other entry is added, removed or
\* changed.
C10_ExpectedSarsaUpdate ==
    [][ td_steps' = td_steps + 1 =>
        LET s == td_last'.state
            a == td_last'.action
            n == td_last'.new_state
            q == IF HasEntry(td_action_values, s, a)
                 THEN td_action_values[s][a] ELSE Zero
            E == IF n \in DOMAIN td_action_values
                 THEN expected_returns(td_action_values[n], td_exploration_fraction)
                 ELSE Zero
            target == IF n = None THEN td_last'.reward
                      ELSE RAdd(td_last'.reward, RMul(td_discount, E))
        IN /\ s = td_state
           /\ HasEntry(td_action_values', s, a)
           /\ td_action_values'[s][a] = RAdd(q, RMul(td_alpha, RSub(target, q)))
           /\ \A s2 \in RandomWalkState : \A a2 \in RandomWalkAction :
                 <<s2, a2>> # <<s, a>> =>
                    /\ HasEntry(td_action_values', s2, a2)
                          <=> HasEntry(td_action_values, s2, a2)
                    /\ HasEntry(td_action_values, s2, a2) =>
                          td_action_values'[s2][a2] = td_action_values[s2][a2]
      ]_vars

\* The latest pass moved to a successor whose two recorded actions have
\* different values, from a state with both actions recorded, and left a
\* non-zero value
C10_Witness ==
    /\ td_last.new_state # None
    /\ td_last.new_state \in DOMAIN td_action_values
    /\ td_last.state \in DOMAIN td_action_values
    /\ DOMAIN td_action_values[td_last.state] = RandomWalkAction
    /\ DOMAIN td_action_values[td_last.new_state] = RandomWalkAction
    /\ td_action_values[td_last.new_state]["Left"]
          # td_action_values[td_last.new_state]["Right"]
    /\ td_action_values[td_last.state][td_last.action] # Zero
    /\ td_discount # One

\* Expected value of state n under the epsilon-greedy policy over the actions
\* available in n, an action without a recorded value counting 0.0
EpsGreedyExpectation(q, n, eps) ==
    LET available == random_walk_random_action(n)
        v(a) == IF HasEntry(q, n, a) THEN q[n][a] ELSE Zero
        greedy == {a \in available :
                     \A b \in available : LtTolerance(RSub(v(b), v(a)))}
        pi(a) == IF a \in greedy
                 THEN RAdd(RDivInt(RSub(One, eps), Cardinality(greedy)),
                           RDivInt(eps, Cardinality(available)))
                 ELSE RDivInt(eps, Cardinality(available))
    IN RSum([a \in available |-> RMul(pi(a), v(a))])

\* C11: the bootstrap term of a pass that finds a successor n is the expected
\* value of n under the epsilon-greedy policy over the actions available in n,
\* unrecorded actions counting 0.0.
C11_BootstrapIsEpsGreedyExpectation ==
    [][ (td_steps' = td_steps + 1 /\ td_last'.new_state # None) =>
        LET s == td_last'.state
            a == td_last'.action
            n == td_last'.new_state
            q == IF HasEntry(td_action_values, s, a)
                 THEN td_action_values[s][a] ELSE Zero
            E == EpsGreedyExpectation(td_action_values, n, td_exploration_fraction)
        IN td_action_values'[s][a]
              = RAdd(q, RMul(td_alpha,
                             RSub(RAdd(td_last'.reward, RMul(td_discount, E)), q)))
      ]_vars

\* The recorded actions of state s whose value is within 1e-6 of the largest
\* recorded value of s
WithinToleranceOfMax(q, s) ==
    {a \in DOMAIN q[s] : \A b \in DOMAIN q[s] : LtTolerance(RSub(q[s][b], q[s][a]))}

\* C12: in every state of the walk and for every draw, the action selection
\* returns what random_action returns when the state has no entry or the draw
\* is at most the exploration fraction, and otherwise exactly the recorded
\* actions within 1e-6 of the state's largest recorded value, each selectable.
C12_SoftGreedySelection ==
    \A s \in RandomWalkState : \A draw \in TDDraws :
        LET selectable == soft_greedy_action(random_walk_random_action(s),
                              td_action_values, s, td_exploration_fraction, draw)
        IN IF s \notin DOMAIN td_action_values
              \/ ~RLt(td_exploration_fraction, draw)
           THEN selectable = random_walk_random_action(s)
           ELSE /\ selectable = WithinToleranceOfMax(td_action_values, s)
                /\ selectable # {}

\* the table holds a state with two tied recorded actions and a state with two
\* recorded actions that are not tied, and a draw takes the greedy branch
C12_Witness ==
    /\ td_steps > 0
    /\ \E draw \in TDDraws : RLt(td_exploration_fraction, draw)
    /\ \E s \in DOMAIN td_action_values :
          Cardinality(WithinToleranceOfMax(td_action_values, s)) = 2
    /\ \E s \in DOMAIN td_action_values :
          /\ Cardinality(DOMAIN td_action_values[s]) = 2
          /\ Cardinality(WithinToleranceOfMax(td_action_values, s)) = 1

\* --------------------------------------------------- MC control: claims --
\* A step that is one pass of the episode loop of find_policy
FPPass == fp_pc = "episode" /\ (fp_pc' = "outer" \/ fp_episode' # fp_episode)

\* Action a is recorded for state s and no recorded action of s has a larger average
MaximalAverage(action_values, s, a) ==
    /\ a \in DOMAIN action_values[s].actions
    /\ \A b \in DOMAIN action_values[s].actions :
          RLe(action_values[s].actions[b].avg, action_values[s].actions[a].avg)

\* C13: in every pass of the episode loop of find_policy the action comes from
\* random_action when the state has no entry or the draw is at most the
\* exploration fraction, and otherwise is a recorded action of maximal average.
C13_EpsilonGreedyEpisode ==
    [][ FPPass =>
        LET s == fp_state
            c == fp_last'
        IN /\ c.state = s
           /\ IF s \notin DOMAIN fp_action_values
              THEN c.branch = "None" /\ c.action \in fp_random_action(s)
              ELSE IF ~RLt(fp_exploration_fraction, c.draw)
                   THEN c.branch = "explore" /\ c.action \in fp_random_action(s)
                   ELSE /\ c.branch = "max_by"
                        /\ MaximalAverage(fp_action_values, s, c.action)
      ]_vars

\* a pass has just taken the greedy branch in a state with two recorded
\* actions of different averages
C13_Witness ==
    /\ fp_pc = "episode"
    /\ fp_last.branch = "max_by"
    /\ LET actions == fp_action_values[fp_last.state].actions IN
       /\ Cardinality(DOMAIN actions) = 2
       /\ \E a, b \in DOMAIN actions : RLt(actions[a].avg, actions[b].avg)

\* C14: the Policy that find_policy returns holds exactly the states pushed to
\* some episode, each with exactly one action, of probability 1.0 and of
\* maximal average among the state's recorded actions; with iterations = 0 it
\* is empty.
C14_ReturnedPolicyIsGreedy ==
    fp_pc = "returned" =>
        /\ DOMAIN fp_result.states = fp_visited
        /\ \A s \in DOMAIN fp_result.states :
              LET actions == fp_result.states[s].actions IN
              /\ Cardinality(DOMAIN actions) = 1
              /\ \A a \in DOMAIN actions :
                    /\ actions[a] = One
                    /\ MaximalAverage(fp_action_values, s, a)
        /\ (fp_iterations = 0 => fp_result.states = EmptyMap)

\* a Policy over both states has been returned, one of them with two recorded
\* actions of different averages
C14_Witness ==
    /\ fp_pc = "returned"
    /\ DOMAIN fp_result.states = MCStates
    /\ \E s \in MCStates :
          LET actions == fp_action_values[s].actions IN
          /\ Cardinality(DOMAIN actions) = 2
          /\ \E a, b \in DOMAIN actions : RLt(actions[a].avg, actions[b].avg)

\* ------------------------------------------------- termination: claims --
\* The solver that was called has returned, after exactly `iterations` episodes
EpisodicReturned ==
    \/ mc_pc = "returned" /\ mc_done = mc_iterations /\ Len(mc_log) = mc_iterations
    \/ fp_pc = "returned" /\ fp_done = fp_iterations
    \/ td_pc = "returned" /\ td_done = td_iterations

\* C15: on environments whose episodes are bounded, each of evaluate_policy,
\* find_policy and find_action_values_expected_sarsa eventually returns, and
\* at its return exactly `iterations` episodes have ended.
C15_EpisodicSolversReturn == <>EpisodicReturned

\* the expected-SARSA call has returned after two episodes, one of them of
\* two passes
C15_Witness ==
    /\ td_pc = "returned"
    /\ td_env = "descent"
    /\ td_iterations = 2
    /\ td_steps >= 3

\* --------------------------------------------------------- tile: claims --
\* The step counts of the declared dimensions, continuous ones first
DeclaredStepCounts ==
    [j \in 1..(Len(tile_continuous_dimensions) + Len(tile_integer_dimensions)) |->
        IF j <= Len(tile_continuous_dimensions)
        THEN tile_continuous_dimensions[j].step_count
        ELSE LET b == tile_integer_dimensions[j - Len(tile_continuous_dimensions)]
             IN b.max - b.min]

\* The product of the first j - 1 step counts
RECURSIVE RadixWeight(_, _)
RadixWeight(radices, j) ==
    IF j = 1 THEN 1 ELSE RadixWeight(radices, j - 1) * radices[j - 1]

\* tiles_k: the product of the step counts of all dimensions
TilesPerTiling ==
    RadixWeight(DeclaredStepCounts \o <<1>>, Len(DeclaredStepCounts) + 1)

\* base_k: the sum of tiles_j over the tilings before the k-th
TileBase(k) == (k - 1) * TilesPerTiling

\* The tile number of dimension j that a flattened index stands for
TileDigit(index, radices, j) == (index \div RadixWeight(radices, j)) % radices[j]

\* C16: get_tiles returns count() indices, the k-th in [base_k, base_k + tiles_k)
\* and all below tile_count(), for every point; a coordinate below the bounds
\* of its dimension lies in tile 0 of the dimension and one at or past the end
\* in tile step_count - 1.
C16_TilesInRangeAndClamped ==
    tile_op \in {"got", "panic"} =>
        /\ ~tile_result.panic
        /\ LET indices == tile_result.feature_indices
               c_len == Len(tile_continuous_dimensions)
               i_len == Len(tile_integer_dimensions)
           IN /\ Len(indices) = TilingSet_count(tile_set)
              /\ Len(indices) = tile_count
              /\ TilingSet_tile_count(tile_set) = tile_count * TilesPerTiling
              /\ \A k \in 1..Len(indices) :
                    /\ TileBase(k) <= indices[k]
                    /\ indices[k] < TileBase(k) + TilesPerTiling
                    /\ indices[k] < TilingSet_tile_count(tile_set)
                    /\ \A j \in 1..c_len :
                          LET d == TileDigit(indices[k] - TileBase(k),
                                             DeclaredStepCounts, j)
                              dim == tile_continuous_dimensions[j]
                          IN /\ RLt(tile_point_c[j], dim.bounds.min) => d = 0
                             /\ ~RLt(tile_point_c[j], dim.bounds.max)
                                   => d = dim.step_count - 1
                    /\ \A j \in 1..i_len :
                          LET d == TileDigit(indices[k] - TileBase(k),
                                             DeclaredStepCounts, c_len + j)
                              b == tile_integer_dimensions[j]
                          IN /\ tile_point_i[j] < b.min => d = 0
                             /\ tile_point_i[j] >= b.max => d = b.max - b.min - 1

\* The tile of a continuous partition that holds x: the first below the
\* origin, the last at or past the end
ContinuousTileNumber(p, x) ==
    IF RLt(x, p.origin) THEN 0
    ELSE IF \E c \in 0..(p.step_count - 1) :
               RLt(x, RAdd(p.origin, RMul(R(c + 1, 1), p.step_size)))
         THEN CHOOSE c \in 0..(p.step_count - 1) :
                 /\ RLe(RAdd(p.origin, RMul(R(c, 1), p.step_size)), x)
                 /\ RLt(x, RAdd(p.origin, RMul(R(c + 1, 1), p.step_size)))
         ELSE p.step_count - 1

\* The tile number an integer partition gives to x (C16 is about its range)
IntegerTileNumber(p, x) ==
    IMin(IMax(i32_wrapping_sub(x, p.origin), 0), p.step_count - 1)

\* The per-dimension tile numbers of the latest point in tiling t
TileNumbers(t) ==
    [j \in 1..(Len(t.continuous_partitions) + Len(t.integer_partitions)) |->
        IF j <= Len(t.continuous_partitions)
        THEN ContinuousTileNumber(t.continuous_partitions[j], tile_point_c[j])
        ELSE IntegerTileNumber(
                 t.integer_partitions[j - Len(t.continuous_partitions)],
                 tile_point_i[j - Len(t.continuous_partitions)])]

\* sum over j of digits[j] * (product of the step counts before j)
RECURSIVE MixedRadix(_, _, _)
MixedRadix(digits, radices, j) ==
    IF j = 0 THEN 0
    ELSE digits[j] * RadixWeight(radices, j) + MixedRadix(digits, radices, j - 1)

TwoContinuousDimensions ==
    <<ContinuousDimension_new(R(-10, 1), R(10, 1), 20),
      ContinuousDimension_new(Zero, R(10, 1), 10)>>

OneContinuousDimension == <<ContinuousDimension_new(Zero, R(10, 1), 10)>>

OneIntegerDimension == <<Bounds_new(0, 5)>>

\* C17: in every tiling the index is the mixed-radix number of the
\* per-dimension tile numbers, first continuous dimension fastest and last
\* integer dimension slowest, and the tile numbers are recovered from it; the
\* three values of the tests are obtained.
C17_MixedRadixOrder ==
    tile_op = "got" =>
        /\ \A k \in 1..Len(tile_set.tilings) :
              LET t == tile_set.tilings[k]
                  index == tile_result.feature_indices[k] - TileBase(k)
                  digits == TileNumbers(t)
              IN /\ index = MixedRadix(digits, DeclaredStepCounts, Len(digits))
                 /\ \A j \in 1..Len(digits) :
                       TileDigit(index, DeclaredStepCounts, j) = digits[j]
        /\ (/\ tile_continuous_dimensions = TwoContinuousDimensions
            /\ tile_integer_dimensions = <<>>
            /\ tile_point_c = <<R(-1, 1), Zero>>)
              => tile_result.feature_indices[1] = 9
        /\ (/\ tile_continuous_dimensions = TwoContinuousDimensions
            /\ tile_integer_dimensions = <<>>
            /\ tile_point_c = <<R(-1, 1), One>>)
              => tile_result.feature_indices[1] = 29
        /\ (/\ tile_continuous_dimensions = OneContinuousDimension
            /\ tile_integer_dimensions = OneIntegerDimension
            /\ tile_point_c = <<Zero>> /\ tile_point_i = <<1>>)
              => tile_result.feature_indices[1] = 10

\* a point of two continuous and two integer dimensions with non-zero tile
\* numbers in the second continuous and in the last integer dimension
C17_Witness ==
    /\ tile_op = "got"
    /\ tile_continuous_dimensions = TwoContinuousDimensions
    /\ Len(tile_integer_dimensions) = 2
    /\ tile_point_c = <<R(-1, 1), One>>
    /\ tile_point_i = <<1, 0>>
    /\ tile_result.feature_indices[1] = 29 + 200 + 2 * 1000

\* C18: tiling k (counted from 0) has in every continuous dimension the origin
\* min + k * step_size / count and in every integer dimension the origin min;
\* with [0,10) in 10 steps, integer [0,5) and 3 tilings the points (0.0, 0)
\* and (1.4, 0) give [0, 50, 100] and [1, 51, 100].
C18_TilingOrigins ==
    tile_op \in {"built", "got", "panic"} =>
        /\ Len(tile_set.tilings) = tile_count
        /\ \A k \in 1..Len(tile_set.tilings) :
              LET t == tile_set.tilings[k] IN
              /\ \A j \in 1..Len(tile_continuous_dimensions) :
                    LET dim == tile_continuous_dimensions[j]
                        step_size == RDivInt(RSub(dim.bounds.max, dim.bounds.min),
                                             dim.step_count)
                    IN t.continuous_partitions[j].origin
                         = RAdd(dim.bounds.min,
                                RDivInt(RMul(R(k - 1, 1), step_size), tile_count))
              /\ \A j \in 1..Len(tile_integer_dimensions) :
                    t.integer_partitions[j].origin = tile_integer_dimensions[j].min
        /\ (/\ tile_op = "got"
            /\ tile_continuous_dimensions = OneContinuousDimension
            /\ tile_integer_dimensions = OneIntegerDimension
            /\ tile_count = 3
            /\ tile_point_i = <<0>>)
              => /\ tile_point_c = <<Zero>>
                    => tile_result.feature_indices = <<0, 50, 100>>
                 /\ tile_point_c = <<R(7, 5)>>
                    => tile_result.feature_indices = <<1, 51, 100>>

\* the point (1.4, 0) has been looked up in the three tilings of the test
C18_Witness ==
    /\ tile_op = "got"
    /\ tile_continuous_dimensions = OneContinuousDimension
    /\ tile_integer_dimensions = OneIntegerDimension
    /\ tile_count = 3
    /\ tile_point_c = <<R(7, 5)>>
    /\ tile_point_i = <<0>>
    /\ tile_result.feature_indices = <<1, 51, 100>>

\* ------------------------------------------------- approximate: claims --
\* What soft_greedy_action can return for a state under the current weights
SGChoices(state, exploration_fraction) ==
    UNION {sg_soft_greedy_action(sg_values(sg_kind, sg_w, state),
                                 sg_possible_action_indices(state),
                                 exploration_fraction, draw) : draw \in SGDraws}

\* C19: semi-gradient SARSA never acts on an impossible action: every index
\* soft_greedy_action returns, on the exploring branch and on the greedy one,
\* and so every action given to next_state, is possible in its state, and the
\* assertion of the test's next_state never fails.
C19_OnlyPossibleActions ==
    sg_pc \in {"outer", "episode", "returned", "panic"} =>
        /\ sg_pc # "panic"
        /\ sg_last.state # NoState =>
               sg_is_action_possible(sg_last.state, sg_actions[sg_last.action_index])
        /\ sg_pc = "episode" =>
               sg_is_action_possible(sg_state, sg_actions[sg_action_index])
        /\ \A state \in sg_start_state : \A e \in SGExplorationFractions :
           \A choice \in SGChoices(state, e) :
               sg_is_action_possible(state, sg_actions[choice[1]])

\* The latest pass ran Right from state 0, chosen by exploring, and the
\* greedy branch then chose Left in state 1
C19_Witness ==
    /\ sg_pc = "episode"
    /\ sg_last.state = 0
    /\ sg_last.branch = "explore"
    /\ sg_actions[sg_last.action_index] = "Right"
    /\ sg_state = 1
    /\ sg_branch = "greedy"
    /\ sg_actions[sg_action_index] = "Left"

\* w + alpha * delta * x
SemiGradientStep(w, alpha, delta, x) ==
    [i \in 1..Len(w) |-> RAdd(w[i], RMul(alpha, RMul(delta, x[i])))]

\* x(s, a) for the current state and the action about to be executed
SGCurrentFeatures ==
    sg_state_action_features(sg_kind, sg_state, sg_actions[sg_action_index])

\* A pass of the episode loop moves w by the SARSA rule, with both dot
\* products taken with w before the pass and the action of the target being
\* the one the next pass executes; nothing else changes w.
SGUpdateRule ==
    /\ Len(sg_w') = Len(sg_w)
    /\ sg_steps' = sg_steps => sg_w' = sg_w
    /\ sg_steps' # sg_steps =>
        LET nr == sg_next_state(sg_state, sg_actions[sg_action_index])
            x == SGCurrentFeatures
        IN /\ sg_last'.state = sg_state
           /\ sg_last'.action_index = sg_action_index
           /\ sg_last'.w = sg_w
           /\ IF nr.is_none
              THEN sg_w' = SemiGradientStep(sg_w, sg_alpha,
                               RSub(nr.reward, dot(sg_w, x)), x)
              ELSE /\ sg_state' = nr.state
                   /\ sg_w' = SemiGradientStep(sg_w, sg_alpha,
                        RSub(RAdd(nr.reward,
                                  RMul(sg_discount,
                                       dot(sg_w, sg_state_action_features(sg_kind,
                                               sg_state', sg_actions[sg_action_index'])))),
                             dot(sg_w, x)),
                        x)

\* C20: semi-gradient SARSA keeps one weight vector w, as long as the features
\* of a start state and all zeros at first; a pass moves it by
\* alpha*(R + discount*(w . x(s',a')) - (w . x(s,a)))*x(s,a), or by
\* alpha*(R - (w . x(s,a)))*x(s,a) when the episode ends, the dot products
\* taken with w before the pass; a' is the action the next pass executes.
C20_SemiGradientSarsaUpdate ==
    /\ \A s \in sg_start_state : \A i \in Range(sg_possible_action_indices(s)) :
           /\ Len(sg_w) = Len(sg_state_action_features(sg_kind, s, sg_actions[i]))
           /\ \A k \in 1..Len(sg_w) : sg_w[k] = Zero
    /\ [][SGUpdateRule]_vars

\* Two passes in a row have moved both weights, the latest one not ending
\* the episode, with a discount other than 1 applied to a bootstrap term
\* w . x(s', a') that is not zero
C20_Witness ==
    /\ sg_kind = "position_action"
    /\ sg_discount # One
    /\ dot(sg_last.w, SGCurrentFeatures) # Zero
    /\ sg_pc = "episode"
    /\ sg_steps >= 2
    /\ ~sg_last.is_none
    /\ sg_last.w # DVector_repeat_zero(2)
    /\ sg_w # sg_last.w
    /\ sg_w[1] # Zero
    /\ sg_w[2] # Zero

\* ------------------------------------------------ ValueEstimate: claims --
\* The sum of a sequence of values
RECURSIVE SeqSum(_)
SeqSum(seq) == IF seq = <<>> THEN Zero ELSE RAdd(Head(seq), SeqSum(Tail(seq)))

\* The estimate after the updates of seq, from the default
RECURSIVE UpdatesFrom(_, _)
UpdatesFrom(estimate, seq) ==
    IF seq = <<>> THEN estimate
    ELSE UpdatesFrom(ValueEstimate_update(estimate, Head(seq)), Tail(seq))

\* The sequences that hold the values of seq in another order
Reorderings(seq) ==
    {[i \in DOMAIN seq |-> seq[p[i]]] :
        p \in {q \in [DOMAIN seq -> DOMAIN seq] :
                  \A i, j \in DOMAIN seq : q[i] = q[j] => i = j}}

\* After n updates the count is n and avg is the mean of the values, whatever
\* their order
VEIsMean ==
    /\ ve_estimate.count = Len(ve_returns)
    /\ ve_returns # <<>> =>
           ve_estimate.avg = RDivInt(SeqSum(ve_returns), Len(ve_returns))
    /\ \A seq \in Reorderings(ve_returns) :
           UpdatesFrom(ValueEstimateDefault, seq) = ve_estimate

\* An update moves avg by (G - avg)/(count + 1)
VEIncrement ==
    ve_returns' # ve_returns =>
        LET G == ve_returns'[Len(ve_returns')]
        IN /\ ve_estimate'.avg =
                  RAdd(ve_estimate.avg,
                       RDivInt(RSub(G, ve_estimate.avg), ve_estimate.count + 1))
           /\ ve_estimate'.count = ve_estimate.count + 1

\* C21: ValueEstimate::update is the incremental mean
\* avg <- avg + (G - avg)/(count + 1): from the default, after n updates the
\* count is n and avg is the arithmetic mean of the n values, in whatever
\* order they arrive.
C21_IncrementalMean == []VEIsMean /\ [][VEIncrement]_vars

\* Three different values have been averaged, in an order that is not sorted
C21_Witness ==
    /\ ve_returns = <<R(3, 1), R(-1, 1), R(1, 2)>>
    /\ ve_estimate = [avg |-> R(5, 6), count |-> 3]

\* ---------------------------------------------------- blackjack: claims --
\* A card counted with the ace as 1
CardLow(card) ==
    IF card.kind = "Ace" THEN 1 ELSE IF card.kind = "Value" THEN card.v ELSE 10

\* h: the sum of the cards, aces as 1
RECURSIVE LowSum(_)
LowSum(cards) ==
    IF cards = <<>> THEN 0 ELSE CardLow(Head(cards)) + LowSum(Tail(cards))

HasAce(cards) == \E i \in DOMAIN cards : cards[i].kind = "Ace"

\* The hand the rule gives for a vector of cards
RuleHand(cards) ==
    IF HasAce(cards) /\ LowSum(cards) + 10 <= 21
    THEN [value |-> LowSum(cards) + 10, usable_ace |-> TRUE]
    ELSE [value |-> LowSum(cards), usable_ace |-> FALSE]

\* The vectors that differ from cards by the exchange of two of its cards;
\* every reordering is a chain of such exchanges
Exchanges(cards) ==
    {[k \in DOMAIN cards |-> IF k = i THEN cards[j]
                             ELSE IF k = j THEN cards[i] ELSE cards[k]] :
        i, j \in DOMAIN cards}

\* C23: for every vector of cards Hand::from_cards gives h + 10 with a usable
\* ace when the vector holds an ace and h + 10 <= 21, and h without a usable
\* ace otherwise, h counting aces as 1, Value(v) as v and faces as 10, in
\* whatever order the cards are added; Ace is 11, Ace Ace 12, four aces 14
\* and Face Face Ace 21.
C23_HandValue ==
    bj_pc = "from_cards" =>
        /\ bj_hand = RuleHand(bj_cards)
        /\ \A cards \in Exchanges(bj_cards) : Hand_from_cards(cards) = bj_hand
        /\ Hand_from_cards(<<Ace>>) = [value |-> 11, usable_ace |-> TRUE]
        /\ Hand_from_cards(<<Ace, Ace>>) = [value |-> 12, usable_ace |-> TRUE]
        /\ Hand_from_cards(<<Ace, Ace, Ace, Ace>>) = [value |-> 14, usable_ace |-> TRUE]
        /\ Hand_from_cards(<<Face, Face, Ace>>) = [value |-> 21, usable_ace |-> FALSE]

\* An ace that was usable has been turned back into 1 by the last card
C23_Witness ==
    /\ bj_pc = "from_cards"
    /\ bj_cards = <<Ace, Value(5), Face>>
    /\ bj_hand = [value |-> 16, usable_ace |-> FALSE]

\* The player's sum with every ace as 1
PlayerLow(state) ==
    state.player.value - (IF state.player.usable_ace THEN 10 ELSE 0)

\* Stick ends the episode and a Hit either ends it or gives a successor of
\* value at most 21 and of greater ace-as-1 sum
BJEpisodeStep ==
    /\ (bj_pc = "episode" /\ bj_pc' = "episode") =>
           /\ bj_hits' = bj_hits + 1
           /\ PlayerLow(bj_state') > PlayerLow(bj_state)
           /\ bj_state'.player.value <= 21
    /\ (bj_pc = "dealer" /\ bj_pc' = "dealer") =>
           /\ bj_draws' = bj_draws + 1
           /\ bj_dealer.value < 17
    /\ bj_pc = "dealer" => bj_pc' \in {"dealer", "done"}
    /\ bj_pc = "done" => bj_pc' = "done"

\* Some step can be taken until the episode is over, and the counts of Hits
\* and of dealer draws stay bounded
BJBounded ==
    /\ bj_hits <= 21
    /\ bj_draws <= 16
    /\ bj_pc \in {"start", "episode", "dealer"} => ENABLED BJNext

\* C30: every blackjack episode is finite under any policy and any cards:
\* Stick returns no successor, a Hit that returns one strictly increases the
\* player's ace-as-1 sum and leaves a value of at most 21, so there are at
\* most 21 Hits, and the dealer loop of next_state ends after a bounded
\* number of draws.
C30_EpisodesAreFinite == []BJBounded /\ [][BJEpisodeStep]_vars

\* An episode in which the player hit and the dealer drew several times
C30_Witness ==
    /\ bj_pc = "done"
    /\ bj_hits >= 5
    /\ bj_draws >= 5

\* ------------------------------------------------- find_policy: update --
\* The return from step i of an episode: the sum of the rewards from i on,
\* each discounted once per step after i
RECURSIVE DiscountedReturnFrom(_, _, _)
DiscountedReturnFrom(episode, i, disc) ==
    IF i > Len(episode) THEN Zero
    ELSE RAdd(episode[i][3], RMul(disc, DiscountedReturnFrom(episode, i + 1, disc)))

\* The positions of an episode at which (s, a) occurs
Occurrences(episode, s, a) ==
    {i \in DOMAIN episode : episode[i][1] = s /\ episode[i][2] = a}

\* The least element of a non-empty set of positions
Earliest(positions) == CHOOSE i \in positions : \A j \in positions : i <= j

\* The estimate of (s, a) in a table, the default when it has none
EstimateOf(action_values, s, a) ==
    IF s \in DOMAIN action_values /\ a \in DOMAIN action_values[s].actions
    THEN action_values[s].actions[a] ELSE ValueEstimateDefault

\* The episode that the pass ending it has just completed
FPEndedEpisode ==
    Append(fp_episode, <<fp_last'.state, fp_last'.action, fp_last'.reward>>)

\* C24: at the end of an episode find_policy updates the estimate of every
\* (state, action) of the episode exactly once, however often the pair occurs,
\* with the discounted return from the earliest occurrence of the pair, and
\* leaves every other pair as it was; no other step changes the table.
C24_OncePerPairFromEarliest ==
    [][ IF fp_pc = "episode" /\ fp_pc' = "outer"
        THEN \A s \in MCStates : \A a \in MCActions :
               LET occ == Occurrences(FPEndedEpisode, s, a) IN
               IF occ = {}
               THEN /\ EstimateOf(fp_action_values', s, a) = EstimateOf(fp_action_values, s, a)
                    /\ (s \in DOMAIN fp_action_values' /\ a \in DOMAIN fp_action_values'[s].actions)
                         <=> (s \in DOMAIN fp_action_values /\ a \in DOMAIN fp_action_values[s].actions)
               ELSE /\ s \in DOMAIN fp_action_values'
                    /\ a \in DOMAIN fp_action_values'[s].actions
                    /\ fp_action_values'[s].actions[a] =
                         ValueEstimate_update(EstimateOf(fp_action_values, s, a),
                             DiscountedReturnFrom(FPEndedEpisode, Earliest(occ), fp_discount))
        ELSE fp_action_values' = fp_action_values ]_vars

\* A pair occurred twice in the first episode, with returns 1/2 from its
\* first occurrence and 1 from its second, and was counted once
C24_Witness ==
    /\ fp_pc = "outer"
    /\ fp_done = 1
    /\ fp_last.reward = One
    /\ \E s \in DOMAIN fp_action_values : \E a \in DOMAIN fp_action_values[s].actions :
          /\ fp_last.state = s
          /\ fp_last.action = a
          /\ DOMAIN fp_action_values = {s}
          /\ DOMAIN fp_action_values[s].actions = {a}
          /\ fp_action_values[s].actions[a] = [avg |-> R(1, 2), count |-> 1]

\* --------------------------------------- approximate: the greedy branch --
\* The possible action indices of a state whose value w . x(s, a) is maximal
SGBestIndices(state) ==
    LET value_of == sg_values(sg_kind, sg_w, state)
        possible == Range(sg_possible_action_indices(state))
    IN {a \in possible : \A b \in possible : RLe(value_of[b], value_of[a])}

\* The indices the greedy branch can return for a state: the draw is above
\* the exploration fraction
SGGreedyChoices(state) ==
    {choice[1] : choice \in sg_soft_greedy_action(sg_values(sg_kind, sg_w, state),
                                sg_possible_action_indices(state), Zero, R(3, 4))}

\* C25: on the greedy branch of the approximate soft_greedy_action, when
\* several possible actions share the maximal value w . x(s, a), any of them
\* can be returned, not only the one of lowest index; with the all-zero
\* weight vector every possible action can be chosen greedily.
C25_GreedyTieAmongAllBest ==
    sg_pc \in {"outer", "episode"} =>
        \A state \in sg_start_state : SGGreedyChoices(state) = SGBestIndices(state)

\* -------------------------------------------- choose_random_key: claims --
\* The weights of a map are non-negative and their total is positive
CRKValid(map) ==
    /\ \A k \in DOMAIN map : f64_le(F64Zero, map[k])
    /\ \E k \in DOMAIN map : map[k] # F64Zero

\* C26: for a non-empty map of non-negative weights with a positive total,
\* choose_random_key returns a key of the map for every draw in [0, 1) and
\* never reaches its final panic; the keys are examined in ascending order, so
\* the result depends on the draw alone.
C26_NeverExhaustsKeys ==
    (crk_pc = "chosen" /\ CRKValid(crk_map)) =>
        /\ ~crk_result.panic
        /\ crk_result.key \in DOMAIN crk_map
        /\ \A order \in IterationOrders(DOMAIN crk_map) :
               choose_random_key(crk_map, crk_draw, order) = crk_result

\* C27: choose_random_key never returns a key of weight 0 when another key
\* has a positive weight, for every draw in [0, 1), 0 included.
C27_NeverZeroWeightKey ==
    (crk_pc = "chosen" /\ CRKValid(crk_map) /\ ~crk_result.panic) =>
        crk_map[crk_result.key] # F64Zero

\* --------------------------------------------------- car rental: claims --
\* C28: in the environment that new_car_rental_env builds, the ActionResult
\* stored for a state (l1, l2) under a transfer t is the one computed for that
\* t from (l1 - t, l2 + t): its rewards are charged |t| * TRANSFER_PRICE,
\* whichever state and transfer first put those car counts into the cache.
C28_ActionResultOfItsTransfer ==
    \A state \in DOMAIN car_states : \A t \in DOMAIN car_states[state].actions :
        car_states[state].actions[t] =
            new_action_result(car_max_cars, state.l1 - t, state.l2 + t, t)

\* ------------------------------------------- TD: non-empty table entries --
\* C29: throughout find_action_values_expected_sarsa every state with an entry
\* in the action-value table has at least one recorded action, and at least one
\* of them is within the tolerance of the maximum; so neither the assertion of
\* soft_greedy_action nor those of expected_returns fail, and the solver never
\* stops on one.
C29_TableEntriesNonEmpty ==
    /\ td_pc # "panic"
    /\ \A s \in DOMAIN td_action_values :
          /\ DOMAIN td_action_values[s] # {}
          /\ td_greedy_actions(td_action_values[s]) # {}
          /\ \A draw \in TDDraws :
                soft_greedy_action(td_random_action(td_env, s), td_action_values,
                                   s, td_exploration_fraction, draw) # {}

\* a second episode is under way in a state the first one recorded, a draw takes
\* the greedy branch there, and the last pass bootstrapped from a recorded state
C29_Witness ==
    /\ td_pc = "episode"
    /\ td_done >= 1
    /\ td_state \in DOMAIN td_action_values
    /\ \E draw \in TDDraws : RLt(td_exploration_fraction, draw)
    /\ td_last.new_state \in DOMAIN td_action_values
    /\ \E s \in DOMAIN td_action_values :
          Cardinality(DOMAIN td_action_values[s]) = 2

====
